---------------------------- MODULE Spec2Model ----------------------------
(***************************************************************************)
(* A model of KOTI's frame-assembly and timeline-composition engine:       *)
(*   src/process/mod.rs    process (the program assembler)                 *)
(*   src/process/frame.rs  ConvertedFrame::from_frame / into_tractor       *)
(*   src/mlt/*.rs          Mlt, Producer, Playlist, Tractor                *)
(*   src/context.rs        Context (the video path)                        *)
(*                                                                         *)
(* Seconds are kept in hundredths of a second (cs): 1.5 s is 150. Sums of  *)
(* seconds are integer sums; the conversion to ticks and the two-image     *)
(* layout are computed in f32 as in the source, bit for bit.               *)
(* Ticks (frames of the output video) are plain naturals (usize).          *)
(***************************************************************************)
EXTENDS Integers, Sequences, FiniteSets, TLC

(***************************************************************************)
(* Bounds of the model.                                                    *)
(***************************************************************************)
\* Frames the frame source emits in one run of process.
MaxFrames == 2
\* Entries the music playlist may take before the model stops the loop.
MaxSegs == 13
\* SpecMusic: the largest master duration and music clip length (ticks).
MaxD == 12
MaxM == 5
\* SpecIds: calls of add_producer / add_playlist / add_tractor.
MaxCalls == 5
\* SpecTicks: the durations converted are 0..MaxCs and 13600..13600+MaxCs
\* hundredths of a second, summed up to MaxN times.
MaxCs == 70
MaxN == 3
\* SpecLayout: image heights are 1..MaxH, 200 and 480 pixels.
MaxH == 12
\* SpecTasks: from_frame tasks running at the same time.
MaxTasks == 2
\* SpecGlyphs: the words of a text.
MaxWords == 4
\* SpecFilter: the characters of a text.
MaxChars == 4
\* SpecTimeout: the largest budget and completion time, in seconds.
MaxT == 4
\* direct_children: the elements of a document and how deep they nest.
MaxElems == 6
MaxDepth == 5
\* fix_broken: the pieces an input is put together from.
MaxPieces == 5

(***************************************************************************)
(* Program constants.                                                      *)
(***************************************************************************)
\* pub const FPS: f32 = 29.97, as hundredths of a frame per second.
FPS == 2997
\* context.rs: VIDEO_WIDTH, VIDEO_HEIGHT.
VIDEO_WIDTH == 1920
VIDEO_HEIGHT == 1080
\* process: the literal 60.0 of the minimum-duration check, in cs.
MinSeconds == 6000
\* ThumbnailTemplate::apply: let mut current_size = 80f32.
StartSize == 80
\* main: for i in 0..10.
MaxAttempts == 10

(***************************************************************************)
(* Option<T> and Result<T>.                                                *)
(***************************************************************************)
None == [some |-> FALSE]
Some(v) == [some |-> TRUE, v |-> v]
IsSome(o) == o.some

Ok(v) == [ok |-> TRUE, v |-> v]
Err(e) == [ok |-> FALSE, e |-> e]

(***************************************************************************)
(* f32. A non-negative finite value is m * 2^e with m = 0 or               *)
(* 2^23 <= m < 2^24 (24 significant bits); every operation rounds its      *)
(* exact result to the nearest such value, ties to the even mantissa.      *)
(* 0.0 / 0.0 is NaN. Values stay far below the overflow threshold.         *)
(***************************************************************************)
F32(m, e) == [m |-> m, e |-> e, nan |-> FALSE]
NaN == [m |-> 0, e |-> 0, nan |-> TRUE]

RECURSIVE f32_norm(_, _)
f32_norm(m, e) ==
    IF m = 0 THEN F32(0, 0)
    ELSE IF m < 2^23 THEN f32_norm(2 * m, e - 1)
    ELSE F32(m, e)

\* "n as f32" for an integer below 2^24: exact.
f32_from_int(n) == f32_norm(n, 0)

\* The mantissa m at exponent e, rounded up by one unit in the last place
\* if up.
f32_round(m, e, up) ==
    IF ~up THEN F32(m, e)
    ELSE IF m + 1 = 2^24 THEN F32(2^23, e + 1)
    ELSE F32(m + 1, e)

\* a * b. The 48-bit product of the mantissas is formed from 12-bit halves
\* as H * 2^24 + L and rounded to 24 bits.
f32_mul(a, b) ==
    IF a.nan \/ b.nan THEN NaN
    ELSE IF a.m = 0 \/ b.m = 0 THEN F32(0, 0)
    ELSE LET a1 == a.m \div 4096
             a0 == a.m % 4096
             b1 == b.m \div 4096
             b0 == b.m % 4096
             t1 == a1 * b0 + a0 * b1
             lo == a0 * b0 + (t1 % 4096) * 4096
             L  == lo % 2^24
             H  == a1 * b1 + t1 \div 4096 + lo \div 2^24
         IN  IF H >= 2^23
             THEN f32_round(H, a.e + b.e + 24,
                            L > 2^23 \/ (L = 2^23 /\ H % 2 = 1))
             ELSE LET m == 2 * H + L \div 2^23
                      r == L % 2^23
                  IN  f32_round(m, a.e + b.e + 23,
                                r > 2^22 \/ (r = 2^22 /\ m % 2 = 1))

\* a + b for a, b >= 0. The smaller operand is shifted to the exponent of
\* the larger one with two guard bits and a sticky bit, and the sum is
\* rounded to 24 bits, ties to even.
f32_add(a, b) ==
    IF a.nan \/ b.nan THEN NaN
    ELSE IF a.m = 0 THEN b
    ELSE IF b.m = 0 THEN a
    ELSE LET hi == IF a.e >= b.e THEN a ELSE b
             lo == IF a.e >= b.e THEN b ELSE a
             d  == hi.e - lo.e
             q  == IF d > 26 THEN 0 ELSE (4 * lo.m) \div 2^d
             st == IF d > 26 THEN TRUE ELSE (4 * lo.m) % 2^d # 0
             S  == 4 * hi.m + q
         IN  IF S >= 2^26
             THEN LET m == S \div 8
                      r == S % 8
                  IN  f32_round(m, hi.e + 1,
                                r > 4 \/ (r = 4 /\ (st \/ m % 2 = 1)))
             ELSE LET m == S \div 4
                      r == S % 4
                  IN  f32_round(m, hi.e,
                                r > 2 \/ (r = 2 /\ (st \/ m % 2 = 1)))

\* Long division: k more bits of the quotient q of remainder r by d.
RECURSIVE LongDiv(_, _, _, _)
LongDiv(r, d, k, q) ==
    IF k = 0 THEN <<q, r>>
    ELSE IF 2 * r >= d THEN LongDiv(2 * r - d, d, k - 1, 2 * q + 1)
    ELSE LongDiv(2 * r, d, k - 1, 2 * q)

\* a / b.
f32_div(a, b) ==
    IF a.nan \/ b.nan \/ (a.m = 0 /\ b.m = 0) THEN NaN
    ELSE IF a.m = 0 THEN F32(0, 0)
    ELSE LET big == a.m >= b.m
             qr  == IF big THEN LongDiv(a.m - b.m, b.m, 23, 1)
                    ELSE LongDiv(a.m, b.m, 24, 0)
             q   == qr[1]
             r   == qr[2]
         IN  f32_round(q, a.e - b.e - (IF big THEN 23 ELSE 24),
                       2 * r > b.m \/ (2 * r = b.m /\ q % 2 = 1))

\* A rounding cast in the place of the truncating one.
f32_to_usize_Nearest(a) ==
    IF a.nan \/ a.m = 0 \/ a.e < -24 THEN 0
    ELSE IF a.e >= 0 THEN a.m * 2^a.e
    ELSE (a.m + 2^(-a.e - 1)) \div 2^(-a.e)

\* "a as usize": the fraction is dropped, NaN becomes 0.
f32_to_usize(a) ==
    IF a.nan \/ a.m = 0 \/ a.e < -24 THEN 0
    ELSE IF a.e >= 0 THEN a.m * 2^a.e
    ELSE a.m \div 2^(-a.e)

\* The f32 nearest to cs / 100 (what a decimal such as 1.5 or 29.97 denotes).
f32_of_cs(cs) == f32_div(f32_from_int(cs), f32_from_int(100))

\* pub const FPS: f32 = 29.97.
FPS_f32 == f32_of_cs(FPS)

(***************************************************************************)
(* seconds_to_frames: (s * FPS) as usize. The cast truncates toward zero   *)
(* and saturates a negative value to 0.                                    *)
(***************************************************************************)
\* seconds_to_frames on the f32 itself.
seconds_to_frames_f32(s) == f32_to_usize(f32_mul(s, FPS_f32))

\* A conversion that rounds to the nearest tick.
seconds_to_frames_Rounded(cs) ==
    IF cs < 0 THEN 0 ELSE (cs * FPS + 5000) \div 10000

\* seconds_to_frames of a number of hundredths of a second.
seconds_to_frames(cs) ==
    IF cs < 0 THEN 0 ELSE seconds_to_frames_f32(f32_of_cs(cs))

(***************************************************************************)
(* emptied: an empty string is no value.                                   *)
(***************************************************************************)
emptied(s) == IF s = "" THEN None ELSE Some(s)

(***************************************************************************)
(* The composition. W is the state the add_* methods work on:              *)
(*   W.events  Mlt::events, one record per element (the run of XML events  *)
(*             of one producer, playlist or tractor is appended at once    *)
(*             by events.extend, so it stays contiguous)                   *)
(*   W.ID      the three static AtomicUsize counters named ID              *)
(*   W.issued  every identifier returned so far, in order (history)        *)
(***************************************************************************)
\* Producer::new: format!("producer{}", ID.fetch_add(1, SeqCst)).
ProducerId(n) == "producer" \o ToString(n)
\* Playlist::new: format!("playlist{}", ID.fetch_add(1, SeqCst)).
PlaylistId(n) == "playlist" \o ToString(n)
\* Tractor::new: format!("tractor{}", ID.fetch_add(1, SeqCst)).
TractorId(n) == "tractor" \o ToString(n)

\* A fetch_add that hands the value out and leaves the counter as it was.
FetchAdd_Stuck(n) == n

\* fetch_add(1): the value after the call.
FetchAdd(n) == n + 1

\* The identifier the last add_* call returned.
LastId(W) == W.issued[Len(W.issued)]

add_producer(W, resource) ==
    LET id == ProducerId(W.ID.producer)
    IN  [events |-> Append(W.events,
                      [el |-> "producer", id |-> id, resource |-> resource]),
         ID     |-> [W.ID EXCEPT !.producer = FetchAdd(@)],
         issued |-> Append(W.issued, id)]

\* An add_playlist that puts the playlist at the head of the log.
add_playlist_Front(W, entries, filters) ==
    LET id == PlaylistId(W.ID.playlist)
    IN  [events |-> <<[el |-> "playlist", id |-> id, entries |-> entries,
                       filters |-> filters]>> \o W.events,
         ID     |-> [W.ID EXCEPT !.playlist = FetchAdd(@)],
         issued |-> Append(W.issued, id)]

\* entries: a sequence of PlaylistEntry::Producer {id, start, end};
\* filters: a sequence of Filter.
add_playlist(W, entries, filters) ==
    LET id == PlaylistId(W.ID.playlist)
    IN  [events |-> Append(W.events,
                      [el |-> "playlist", id |-> id, entries |-> entries,
                       filters |-> filters]),
         ID     |-> [W.ID EXCEPT !.playlist = FetchAdd(@)],
         issued |-> Append(W.issued, id)]

\* An add_tractor_with_transitions that puts the tractor at the head of the
\* log, before the playlists that are its tracks.
add_tractor_with_transitions_Front(W, tracks, filters, transitions) ==
    LET id == TractorId(W.ID.tractor)
    IN  [events |-> <<[el |-> "tractor", id |-> id, tracks |-> tracks,
                       filters |-> filters, transitions |-> transitions]>>
                    \o W.events,
         ID     |-> [W.ID EXCEPT !.tractor = FetchAdd(@)],
         issued |-> Append(W.issued, id)]

add_tractor_with_transitions(W, tracks, filters, transitions) ==
    LET id == TractorId(W.ID.tractor)
    IN  [events |-> Append(W.events,
                      [el |-> "tractor", id |-> id, tracks |-> tracks,
                       filters |-> filters, transitions |-> transitions]),
         ID     |-> [W.ID EXCEPT !.tractor = FetchAdd(@)],
         issued |-> Append(W.issued, id)]

add_tractor(W, tracks, filters) ==
    add_tractor_with_transitions(W, tracks, filters, <<>>)

\* PlaylistEntry::Producer { id, start, end }.
Entry(id, start, end) == [id |-> id, start |-> start, end |-> end]
\* Filter::new(name) with its properties, a set of <<key, value>> (a HashMap).
Filter(name, props) == [name |-> name, props |-> props]
\* Transition::new(name, a_track, b_track, start, end).
Transition(name, a, b, start, end) ==
    [name |-> name, a_track |-> a, b_track |-> b, start |-> start, end |-> end]

(***************************************************************************)
(* Frame and ConvertedFrame.                                               *)
(*   Frame: tts, overlaid (strings), imagepath (Option), imagefadesin,     *)
(*          persists_after_tts (cs)                                        *)
(*   ConvertedFrame: fg_image, text_overlay: Option<<path, w, h>>,         *)
(*          tts_audio: Option<<path, duration>>, fades_in_after, duration  *)
(***************************************************************************)
\* A from_frame that forgets persists_after_tts in the total duration.
FromFrameResult_NoPersists(frame, tts_audio, text_overlay, fg_image) ==
    IF ~tts_audio.ok THEN Err(tts_audio.e)
    ELSE LET duration == IF IsSome(tts_audio.v) THEN tts_audio.v.v[2] ELSE 0
         IN  IF ~text_overlay.ok THEN Err(text_overlay.e)
             ELSE IF ~fg_image.ok THEN Err(fg_image.e)
             ELSE Ok([fg_image       |-> fg_image.v,
                      tts_audio      |-> tts_audio.v,
                      text_overlay   |-> text_overlay.v,
                      fades_in_after |-> IF frame.imagefadesin
                                         THEN Some(100) ELSE None,
                      duration       |-> duration])

\* A from_frame that itself rejects a frame without any image.
FromFrameResult_RejectBlank(frame, tts_audio, text_overlay, fg_image) ==
    IF ~tts_audio.ok THEN Err(tts_audio.e)
    ELSE LET duration == IF IsSome(tts_audio.v) THEN tts_audio.v.v[2] ELSE 0
         IN  IF ~text_overlay.ok THEN Err(text_overlay.e)
             ELSE IF ~fg_image.ok THEN Err(fg_image.e)
             ELSE IF ~IsSome(text_overlay.v) /\ ~IsSome(fg_image.v)
             THEN Err("no image")
             ELSE Ok([fg_image       |-> fg_image.v,
                      tts_audio      |-> tts_audio.v,
                      text_overlay   |-> text_overlay.v,
                      fades_in_after |-> IF frame.imagefadesin
                                         THEN Some(100) ELSE None,
                      duration       |-> frame.persists_after_tts + duration])

\* A from_frame that looks at the overlay's result before the narration's.
FromFrameResult_OverlayFirst(frame, tts_audio, text_overlay, fg_image) ==
    IF ~text_overlay.ok THEN Err(text_overlay.e)
    ELSE IF ~tts_audio.ok THEN Err(tts_audio.e)
    ELSE LET duration == IF IsSome(tts_audio.v) THEN tts_audio.v.v[2] ELSE 0
         IN  IF ~fg_image.ok THEN Err(fg_image.e)
             ELSE Ok([fg_image       |-> fg_image.v,
                      tts_audio      |-> tts_audio.v,
                      text_overlay   |-> text_overlay.v,
                      fades_in_after |-> IF frame.imagefadesin
                                         THEN Some(100) ELSE None,
                      duration       |-> frame.persists_after_tts + duration])

\* The steps "tts_audio??", "text_overlay_path??", "fg_image??" and the
\* construction of the ConvertedFrame, from the three joined results.
FromFrameResult(frame, tts_audio, text_overlay, fg_image) ==
    IF ~tts_audio.ok THEN Err(tts_audio.e)
    ELSE LET duration == IF IsSome(tts_audio.v) THEN tts_audio.v.v[2] ELSE 0
         IN  IF ~text_overlay.ok THEN Err(text_overlay.e)
             ELSE IF ~fg_image.ok THEN Err(fg_image.e)
             ELSE Ok([fg_image       |-> fg_image.v,
                      tts_audio      |-> tts_audio.v,
                      text_overlay   |-> text_overlay.v,
                      fades_in_after |-> IF frame.imagefadesin
                                         THEN Some(100) ELSE None,
                      duration       |-> frame.persists_after_tts + duration])

\* The two-image layout of into_tractor_2_images: the geometry of both
\* images, in f32 as in the source.
\* A ratio taken against the other image's height instead of the total.
Ratio_ToOther(h, total) ==
    f32_div(f32_from_int(h), f32_from_int(total - h))

\* r = (h as f32) / ((h1 + h2) as f32); 0/0 is NaN.
Ratio(h, total) == f32_div(f32_from_int(h), f32_from_int(total))

\* (v * r) as usize, with v the video's width or height as f32.
Share(v, r) == f32_to_usize(f32_mul(f32_from_int(v), r))

\* The vertical placement of the two scaled images: the first is centred
\* against the second's height, the second sits below it by that height.
Place(r1, r2, cw1, ch1, cw2, ch2) ==
    LET y1 == IF ch2 > VIDEO_HEIGHT THEN 0 ELSE (VIDEO_HEIGHT - ch2) \div 2
        y2 == y1 + ch2
    IN  [r1 |-> r1, r2 |-> r2, cw1 |-> cw1, ch1 |-> ch1, cw2 |-> cw2,
         ch2 |-> ch2, y1 |-> y1, y2 |-> y2]

\* The scaled sizes under the ratios r1 and r2; cw2 is taken from r1.
Scaled(r1, r2) ==
    Place(r1, r2, Share(VIDEO_WIDTH, r1), Share(VIDEO_HEIGHT, r1),
          Share(VIDEO_WIDTH, r1), Share(VIDEO_HEIGHT, r2))

Layout(h1, h2) == Scaled(Ratio(h1, h1 + h2), Ratio(h2, h1 + h2))

\* format!("0=0 {} {} {}", y, cw, ch).
Geometry(y, cw, ch) ==
    "0=0 " \o ToString(y) \o " " \o ToString(cw) \o " " \o ToString(ch)

AffineFilter(y, cw, ch) ==
    Filter("affine", {<<"background", "colour:0">>,
                      <<"transition.geometry", Geometry(y, cw, ch)>>,
                      <<"transition.distort", "0">>})

\* An into_tractor_1_image that always adds the audio track, an empty
\* playlist when the frame has no narration.
into_tractor_1_image_AlwaysAudio(W, cf, img) ==
    LET total_duration == seconds_to_frames(cf.duration)
        W1 == add_producer(W, img)
        producer1 == LastId(W1)
        W2 == IF IsSome(cf.tts_audio)
              THEN add_producer(W1, cf.tts_audio.v[1]) ELSE W1
        W3 == add_playlist(W2, <<Entry(producer1, 0, total_duration)>>,
                           <<Filter("resize", {})>>)
        playlist1 == LastId(W3)
        W4 == IF IsSome(cf.tts_audio)
              THEN add_playlist(W3, <<Entry(LastId(W2), 0, total_duration)>>,
                                <<Filter("panner", {<<"start", "0.5">>})>>)
              ELSE add_playlist(W3, <<>>,
                                <<Filter("panner", {<<"start", "0.5">>})>>)
    IN  add_tractor(W4, <<playlist1, LastId(W4)>>, <<>>)

\* into_tractor_1_image: one picture track, and an audio track if the
\* frame has narration. Returns the composition; the tractor is LastId.
into_tractor_1_image(W, cf, img) ==
    LET total_duration == seconds_to_frames(cf.duration)
        W1 == add_producer(W, img)
        producer1 == LastId(W1)
        W2 == IF IsSome(cf.tts_audio)
              THEN add_producer(W1, cf.tts_audio.v[1]) ELSE W1
        W3 == add_playlist(W2, <<Entry(producer1, 0, total_duration)>>,
                           <<Filter("resize", {})>>)
        playlist1 == LastId(W3)
        W4 == IF IsSome(cf.tts_audio)
              THEN add_playlist(W3, <<Entry(LastId(W2), 0, total_duration)>>,
                                <<Filter("panner", {<<"start", "0.5">>})>>)
              ELSE W3
        tracks == IF IsSome(cf.tts_audio)
                  THEN <<playlist1, LastId(W4)>> ELSE <<playlist1>>
    IN  add_tractor(W4, tracks, <<>>)

\* A two-image body whose audio track lasts as long as the narration alone,
\* without the time the frame persists after it.
two_image_tracks_AudioOwnLength(W, cf, i1, i2, duration, g) ==
    LET W1 == add_producer(W, i1[1])
        W2 == add_producer(W1, i2[1])
        W3 == IF IsSome(cf.tts_audio)
              THEN add_producer(W2, cf.tts_audio.v[1]) ELSE W2
        W4 == add_playlist(W3, <<Entry(LastId(W1), 0, duration)>>,
                           <<AffineFilter(g.y1, g.cw1, g.ch1)>>)
        W5 == add_playlist(W4, <<Entry(LastId(W2), 0, duration)>>,
                           <<AffineFilter(g.y2, g.cw2, g.ch2)>>)
        W6 == IF IsSome(cf.tts_audio)
              THEN add_playlist(W5,
                      <<Entry(LastId(W3), 0,
                              seconds_to_frames(cf.tts_audio.v[2]))>>, <<>>)
              ELSE W5
        tracks == IF IsSome(cf.tts_audio)
                  THEN <<LastId(W4), LastId(W5), LastId(W6)>>
                  ELSE <<LastId(W4), LastId(W5)>>
    IN  add_tractor(W6, tracks, <<>>)

\* The body of into_tractor_2_images once the duration in ticks and the
\* geometry g are computed.
two_image_tracks(W, cf, i1, i2, duration, g) ==
    LET W1 == add_producer(W, i1[1])
        W2 == add_producer(W1, i2[1])
        W3 == IF IsSome(cf.tts_audio)
              THEN add_producer(W2, cf.tts_audio.v[1]) ELSE W2
        W4 == add_playlist(W3, <<Entry(LastId(W1), 0, duration)>>,
                           <<AffineFilter(g.y1, g.cw1, g.ch1)>>)
        W5 == add_playlist(W4, <<Entry(LastId(W2), 0, duration)>>,
                           <<AffineFilter(g.y2, g.cw2, g.ch2)>>)
        W6 == IF IsSome(cf.tts_audio)
              THEN add_playlist(W5, <<Entry(LastId(W3), 0, duration)>>, <<>>)
              ELSE W5
        tracks == IF IsSome(cf.tts_audio)
                  THEN <<LastId(W4), LastId(W5), LastId(W6)>>
                  ELSE <<LastId(W4), LastId(W5)>>
    IN  add_tractor(W6, tracks, <<>>)

\* into_tractor_2_images: two picture tracks placed by an affine filter,
\* and an audio track if the frame has narration.
into_tractor_2_images(W, cf, i1, i2) ==
    two_image_tracks(W, cf, i1, i2, seconds_to_frames(cf.duration),
                     Layout(i1[3], i2[3]))

\* An into_tractor that shows a frame without any image as a black card.
into_tractor_BlackCard(W, cf) ==
    LET duration == seconds_to_frames(cf.duration)
        done(W2) == [kind |-> "ok", W |-> W2, tractor |-> LastId(W2),
                     dur |-> duration]
    IN  CASE ~IsSome(cf.fg_image) /\ ~IsSome(cf.text_overlay) ->
                done(into_tractor_1_image(W, cf, "black"))
          [] IsSome(cf.fg_image) /\ ~IsSome(cf.text_overlay) ->
                done(into_tractor_1_image(W, cf, cf.fg_image.v[1]))
          [] ~IsSome(cf.fg_image) /\ IsSome(cf.text_overlay) ->
                done(into_tractor_1_image(W, cf, cf.text_overlay.v[1]))
          [] OTHER ->
                done(into_tractor_2_images(W, cf, cf.fg_image.v,
                                           cf.text_overlay.v))

\* into_tractor: [kind |-> "ok", W, tractor, dur] or, for a frame with no
\* image at all, [kind |-> "panic"] (panic!("blank frame?")), which leaves
\* the composition as it was.
into_tractor(W, cf) ==
    LET duration == seconds_to_frames(cf.duration)
        done(W2) == [kind |-> "ok", W |-> W2, tractor |-> LastId(W2),
                     dur |-> duration]
    IN  CASE ~IsSome(cf.fg_image) /\ ~IsSome(cf.text_overlay) ->
                [kind |-> "panic", W |-> W, tractor |-> "", dur |-> 0]
          [] IsSome(cf.fg_image) /\ ~IsSome(cf.text_overlay) ->
                done(into_tractor_1_image(W, cf, cf.fg_image.v[1]))
          [] ~IsSome(cf.fg_image) /\ IsSome(cf.text_overlay) ->
                done(into_tractor_1_image(W, cf, cf.text_overlay.v[1]))
          [] OTHER ->
                done(into_tractor_2_images(W, cf, cf.fg_image.v,
                                           cf.text_overlay.v))

(***************************************************************************)
(* The closure of the scan that builds the music playlist: from the        *)
(* remaining duration and the clip length, the length of the next entry    *)
(* and the new remaining duration, or a stop.                              *)
(***************************************************************************)
\* A saturating subtraction in the place of the checked one.
checked_sub_Saturating(a, b) == Some(IF a >= b THEN a - b ELSE 0)

\* usize::checked_sub.
checked_sub(a, b) == IF a >= b THEN Some(a - b) ELSE None

\* A scan that stops at the last full clip and drops the partial one.
MusicScan_NoPartial(duration, musicdur) ==
    LET sub == checked_sub(duration, musicdur)
    IN  IF IsSome(sub)
        THEN [stop |-> FALSE, len |-> musicdur, duration |-> sub.v]
        ELSE [stop |-> TRUE, len |-> 0, duration |-> duration]

MusicScan(duration, musicdur) ==
    LET sub == checked_sub(duration, musicdur)
    IN  IF IsSome(sub)
        THEN [stop |-> FALSE, len |-> musicdur, duration |-> sub.v]
        ELSE IF duration = 0
        THEN [stop |-> TRUE, len |-> 0, duration |-> duration]
        ELSE [stop |-> FALSE, len |-> duration, duration |-> 0]

(***************************************************************************)
(* The inputs and the outcomes of the external collaborators.              *)
(***************************************************************************)
\* The values of persists_after_tts the frame sources use (0.5 s, 1.5 s).
Persists == {50, 150}
\* The Frames the source may emit in a run of process (the frame sources
\* never set imagefadesin, and their comment frames persist for 1.5 s).
Frames ==
    [tts : {"", "Hello"}, overlaid : {"", "Title"},
     imagepath : {None, Some("/koti/shot.png")},
     imagefadesin : {FALSE}, persists_after_tts : {150}]
\* The Frames from_frame is resolved for on its own.
AllFrames ==
    [tts : {"", "Hello"}, overlaid : {"", "Title"},
     imagepath : {None, Some("/koti/shot.png")},
     imagefadesin : BOOLEAN, persists_after_tts : Persists]
\* Durations wav_duration may report for a narration (cs).
TtsDurations == {4850, 6000}
\* Durations the music task may find for the chosen track (cs).
MusicTotals == {2, 4000}

\* basedir.join(format!("tts{}.wav", TTS_COUNTER.fetch_add(1, SeqCst))).
TtsPath(n) == "/koti/tts" \o ToString(n) \o ".wav"
\* basedir.join(format!("text_overlay{}.png", TEXT_OVERLAY_COUNT.fetch_add(..))).
OverlayPath(n) == "/koti/text_overlay" \o ToString(n) \o ".png"

\* What the narration sub-task may end with: Ok(None) at once when there
\* is no narration text, else the wav file and its duration, or an espeak
\* failure.
TtsOutcomes(frame, n) ==
    IF ~IsSome(emptied(frame.tts)) THEN {Ok(None)}
    ELSE {Ok(Some(<<TtsPath(n), d>>)) : d \in TtsDurations}
         \cup {Err("EspeakError")}
\* What the overlay sub-task may end with.
OverlayOutcomes(frame, n) ==
    IF ~IsSome(emptied(frame.overlaid)) THEN {Ok(None)}
    ELSE {Ok(Some(<<OverlayPath(n), 800, 200>>)), Err("Image")}
\* What the image-probing sub-task may end with.
ImageOutcomes(frame) ==
    IF ~IsSome(frame.imagepath) THEN {Ok(None)}
    ELSE {Ok(Some(<<frame.imagepath.v, 640, 480>>)), Err("Image")}

(***************************************************************************)
(* The state.                                                              *)
(***************************************************************************)
VARIABLES
    frames,             \* the Frames the source has emitted, in order
    frames_tasks,       \* per frame: None while its task runs, else Some(result)
    musictask,          \* None while the music task runs, else Some(result)
    pc,                 \* where process is
    next,               \* the frame process compiles next (1-based)
    duration,           \* process: let mut duration
    frame_tractors,     \* process: the <<tractor, dur>> collected so far
    frame_playlist,     \* process: the content playlist's id, "" before
    music_producer,     \* process: the music producer's id
    musicdur,           \* process: the music clip length in ticks
    mrem,               \* the scan's state: the duration still to fill
    msegs,              \* the entries the scan has yielded so far
    mlt_events,         \* Mlt::events
    ID,                 \* the static ID counters of producer/playlist/tractor
    issued,             \* every identifier add_* has returned (history)
    TTS_COUNTER,        \* tts.rs: static TTS_COUNTER
    TEXT_OVERLAY_COUNT, \* frame.rs: static TEXT_OVERLAY_COUNT
    result,             \* what process ended with: None, Ok, Err or a panic
    video_path,         \* Context: video_path
    meltRuns,           \* how often the compositor (melt) was started
    compiled,           \* the frames into_tractor returned Ok for (history)
    fr_frame,           \* from_frame: the Frame it resolves, None if idle
    fr_tts,             \* from_frame: tts_audio, None while the task runs
    fr_overlay,         \* from_frame: text_overlay, None while the task runs
    fr_image,           \* from_frame: fg_image, None while the task runs
    fr_result,          \* from_frame: what it returned, None before
    melt_status,        \* Mlt::run: the exit status of melt, None if not run
    project,            \* Mlt::save: the document written to project.mlt
    tasks,              \* concurrent from_frame tasks: where each one is
    files,              \* the output files written: a set of <<task, path>>
    arg,                \* the input of a function checked on its own
    ret,                \* its result, None before the call
    intro,              \* the intro media file configured for the run
    outro,              \* the outro media file configured for the run
    music_at,           \* where process was when the music task ended (history)
    loc                 \* the locals of a function stepped on its own

vars == <<frames, frames_tasks, musictask, pc, next, duration, frame_tractors,
          frame_playlist, music_producer, musicdur, mrem, msegs, mlt_events,
          ID, issued, TTS_COUNTER, TEXT_OVERLAY_COUNT, result, video_path,
          meltRuns, compiled, fr_frame, fr_tts, fr_overlay, fr_image,
          fr_result, melt_status, project, tasks, files, arg, ret, intro,
          outro, music_at, loc>>

procVars == <<frames, frames_tasks, musictask, pc, next, duration,
              frame_tractors, frame_playlist, result, video_path, meltRuns,
              compiled, melt_status, project>>
frVars == <<fr_frame, fr_tts, fr_overlay, fr_image, fr_result>>
mltVars == <<mlt_events, ID, issued>>
musicVars == <<music_producer, musicdur, mrem, msegs>>
counterVars == <<TTS_COUNTER, TEXT_OVERLAY_COUNT>>
meltVars == <<melt_status, project>>
extVars == <<tasks, files, arg, ret, intro, outro, music_at, loc>>

Comp == [events |-> mlt_events, ID |-> ID, issued |-> issued]
SetComp(W) ==
    /\ mlt_events' = W.events
    /\ ID' = W.ID
    /\ issued' = W.issued

\* process has ended: it returned (Ok or Err) or it panicked.
Return(r) == pc' = "done" /\ result' = Some(r)
Panic == [ok |-> FALSE, e |-> "panic: blank frame?", panic |-> TRUE]
IsPanic(r) == "panic" \in DOMAIN r

SourceInit ==
    /\ frames = <<>>
    /\ frames_tasks = <<>>
    /\ musictask = None

ProcessInit ==
    /\ next = 1
    /\ frame_tractors = <<>>
    /\ frame_playlist = ""
    /\ result = None
    /\ video_path = None
    /\ meltRuns = 0
    /\ compiled = <<>>
    /\ melt_status = None
    /\ project = None

ScanInit ==
    /\ duration = 0
    /\ music_producer = ""
    /\ musicdur = 0
    /\ mrem = 0
    /\ msegs = <<>>

CompInit ==
    /\ mlt_events = <<>>
    /\ ID = [producer |-> 0, playlist |-> 0, tractor |-> 0]
    /\ issued = <<>>

CountersInit ==
    /\ TTS_COUNTER = 0
    /\ TEXT_OVERLAY_COUNT = 0

FrameIdle ==
    /\ fr_frame = None
    /\ fr_tts = None
    /\ fr_overlay = None
    /\ fr_image = None
    /\ fr_result = None

\* Nothing but process itself is running.
ExtIdle ==
    /\ tasks = <<>>
    /\ files = {}
    /\ arg = None
    /\ ret = None
    /\ music_at = ""
    /\ loc = None

\* No intro and no outro are configured.
NoConfig ==
    /\ intro = None
    /\ outro = None

\* process has just been called: nothing emitted, nothing registered.
Init ==
    /\ pc = "collect"
    /\ SourceInit
    /\ ProcessInit
    /\ ScanInit
    /\ CompInit
    /\ CountersInit
    /\ FrameIdle
    /\ ExtIdle
    /\ NoConfig

(***************************************************************************)
(* process, lines 116-121: the source emits a Frame and process spawns     *)
(* from_frame for it.                                                      *)
(***************************************************************************)
Emit ==
    /\ pc = "collect"
    /\ Len(frames) < MaxFrames
    /\ \E f \in Frames :
          /\ frames' = Append(frames, f)
          /\ frames_tasks' = Append(frames_tasks, None)
    /\ UNCHANGED <<musictask, pc, next, duration, frame_tractors,
                   frame_playlist, musicVars, mltVars, counterVars, result,
                   video_path, meltRuns, compiled, frVars,
                   meltVars, extVars>>

(***************************************************************************)
(* The source ends, collect() returns; process creates the Mlt and         *)
(* registers the "black" producer (lines 123-136).                         *)
(***************************************************************************)
EndStream ==
    /\ pc = "collect"
    /\ pc' = "compile"
    /\ SetComp(add_producer([Comp EXCEPT !.events = <<>>], "black"))
    /\ UNCHANGED <<frames, frames_tasks, musictask, next, duration,
                   frame_tractors, frame_playlist, musicVars, counterVars,
                   result, video_path, meltRuns, compiled, frVars,
                   meltVars, extVars>>

(***************************************************************************)
(* The task of frame i runs from_frame to its end. TTS_COUNTER is taken    *)
(* by prepare_command whenever there is narration text;                    *)
(* TEXT_OVERLAY_COUNT only once the overlay has been rendered.             *)
(***************************************************************************)
\* TEXT_OVERLAY_COUNT after the overlay sub-task ended with o: taken if the
\* png was saved, not taken if there was no overlay text, and either if
\* the task failed (text_overlay fails before the fetch_add,
\* save_with_format after it).
OverlayCounts(o, n) ==
    IF o.ok THEN (IF IsSome(o.v) THEN {FetchAdd(n)} ELSE {n})
    ELSE {n, FetchAdd(n)}

Resolve(i) ==
    /\ i \in 1..Len(frames_tasks)
    /\ frames_tasks[i] = None
    /\ \E t \in TtsOutcomes(frames[i], TTS_COUNTER),
          o \in OverlayOutcomes(frames[i], TEXT_OVERLAY_COUNT),
          g \in ImageOutcomes(frames[i]) :
          /\ frames_tasks' = [frames_tasks EXCEPT ![i] =
                                Some(FromFrameResult(frames[i], t, o, g))]
          /\ TTS_COUNTER' = IF IsSome(emptied(frames[i].tts))
                            THEN FetchAdd(TTS_COUNTER) ELSE TTS_COUNTER
          /\ TEXT_OVERLAY_COUNT' \in OverlayCounts(o, TEXT_OVERLAY_COUNT)
    /\ UNCHANGED <<frames, musictask, pc, next, duration, frame_tractors,
                   frame_playlist, musicVars, mltVars, result, video_path,
                   meltRuns, compiled, frVars,
                   meltVars, extVars>>

(***************************************************************************)
(* The music task ends: a track and its length, or an error.               *)
(***************************************************************************)
MusicTask ==
    /\ musictask = None
    /\ \E r \in {Ok(<<"/data/song.mp3", "Song by X", m>>) : m \in MusicTotals}
                \cup {Err("Could not find duration with regex")} :
          musictask' = Some(r)
    /\ music_at' = pc
    /\ UNCHANGED <<frames, frames_tasks, pc, next, duration, frame_tractors,
                   frame_playlist, musicVars, mltVars, counterVars, result,
                   video_path, meltRuns, compiled, frVars,
                   meltVars, tasks, files, arg, ret, intro, outro,
                   loc>>

(***************************************************************************)
(* process, lines 142-154: the next task in emission order is awaited and  *)
(* its frame compiled. An Err ends try_collect and process; a frame with   *)
(* no image makes into_tractor panic.                                      *)
(***************************************************************************)
\* Taking the tasks as they complete: the last emitted frame among those
\* resolved and not yet compiled.
NextTask_AsCompleted ==
    LET R == {i \in 1..Len(frames_tasks) :
                /\ IsSome(frames_tasks[i])
                /\ \A k \in 1..Len(compiled) : compiled[k] # i}
    IN  IF R = {} THEN next ELSE CHOOSE i \in R : \A j \in R : j <= i

\* stream::iter(frames_tasks).then(identity): the tasks are awaited one by
\* one in the order of the vector, which is the order of emission.
NextTask == next

\* A compile loop that skips a frame whose resolution failed.
Compile_SkipFailed ==
    /\ pc = "compile"
    /\ NextTask \in 1..Len(frames_tasks)
    /\ IsSome(frames_tasks[NextTask])
    /\ LET res == frames_tasks[NextTask].v
           r   == into_tractor(Comp, res.v)
       IN  IF ~res.ok
           THEN /\ next' = next + 1
                /\ UNCHANGED <<pc, result, duration, frame_tractors, mltVars,
                               compiled>>
           ELSE IF r.kind = "panic"
           THEN /\ Return(Panic)
                /\ SetComp(r.W)
                /\ UNCHANGED <<next, duration, frame_tractors, compiled>>
           ELSE /\ duration' = duration + r.dur
                /\ frame_tractors' = Append(frame_tractors, <<r.tractor, r.dur>>)
                /\ compiled' = Append(compiled, NextTask)
                /\ next' = next + 1
                /\ SetComp(r.W)
                /\ UNCHANGED <<pc, result>>
    /\ UNCHANGED <<frames, frames_tasks, musictask, frame_playlist, musicVars,
                   counterVars, video_path, meltRuns, frVars,
                   meltVars, extVars>>

\* A compile loop that keeps the duration of the last frame only.
Compile_Overwrite ==
    /\ pc = "compile"
    /\ NextTask \in 1..Len(frames_tasks)
    /\ IsSome(frames_tasks[NextTask])
    /\ LET res == frames_tasks[NextTask].v
           r   == into_tractor(Comp, res.v)
       IN  IF ~res.ok
           THEN /\ Return(Err(res.e))
                /\ UNCHANGED <<next, duration, frame_tractors, mltVars,
                               compiled>>
           ELSE IF r.kind = "panic"
           THEN /\ Return(Panic)
                /\ SetComp(r.W)
                /\ UNCHANGED <<next, duration, frame_tractors, compiled>>
           ELSE /\ duration' = r.dur
                /\ frame_tractors' = Append(frame_tractors, <<r.tractor, r.dur>>)
                /\ compiled' = Append(compiled, NextTask)
                /\ next' = next + 1
                /\ SetComp(r.W)
                /\ UNCHANGED <<pc, result>>
    /\ UNCHANGED <<frames, frames_tasks, musictask, frame_playlist, musicVars,
                   counterVars, video_path, meltRuns, frVars,
                   meltVars, extVars>>

Compile ==
    /\ pc = "compile"
    /\ NextTask \in 1..Len(frames_tasks)
    /\ IsSome(frames_tasks[NextTask])
    /\ LET res == frames_tasks[NextTask].v
           r   == into_tractor(Comp, res.v)
       IN  IF ~res.ok
           THEN /\ Return(Err(res.e))
                /\ UNCHANGED <<next, duration, frame_tractors, mltVars,
                               compiled>>
           ELSE IF r.kind = "panic"
           THEN /\ Return(Panic)
                /\ SetComp(r.W)
                /\ UNCHANGED <<next, duration, frame_tractors, compiled>>
           ELSE /\ duration' = duration + r.dur
                /\ frame_tractors' = Append(frame_tractors, <<r.tractor, r.dur>>)
                /\ compiled' = Append(compiled, NextTask)
                /\ next' = next + 1
                /\ SetComp(r.W)
                /\ UNCHANGED <<pc, result>>
    /\ UNCHANGED <<frames, frames_tasks, musictask, frame_playlist, musicVars,
                   counterVars, video_path, meltRuns, frVars,
                   meltVars, extVars>>

(***************************************************************************)
(* process, lines 158-175: the content playlist, then the check of the     *)
(* minimum duration.                                                       *)
(***************************************************************************)
\* A check that compares the ticks with the number of seconds.
TooShort_Seconds(d) == d < MinSeconds \div 100

TooShort(d) == d < seconds_to_frames(MinSeconds)

FinishFrames ==
    /\ pc = "compile"
    /\ next = Len(frames_tasks) + 1
    /\ LET W == add_playlist(Comp,
                   [k \in 1..Len(frame_tractors) |->
                      Entry(frame_tractors[k][1], 0, frame_tractors[k][2])],
                   <<>>)
       IN  /\ SetComp(W)
           /\ frame_playlist' = LastId(W)
    /\ IF TooShort(duration)
       THEN Return(Err("duration is less than a minute"))
       ELSE pc' = "await_music" /\ UNCHANGED result
    /\ UNCHANGED <<frames, frames_tasks, musictask, next, duration,
                   frame_tractors, musicVars, counterVars, video_path,
                   meltRuns, compiled, frVars,
                   meltVars, extVars>>

(***************************************************************************)
(* process, lines 177-184: the music task is awaited; the music producer.  *)
(***************************************************************************)
\* An await that polls the music task and gives up if it is still running.
AwaitMusic_Poll ==
    /\ pc = "await_music"
    /\ LET m == IF IsSome(musictask) THEN musictask.v
                ELSE Err("music not chosen yet")
       IN  IF ~m.ok
           THEN /\ Return(Err(m.e))
                /\ UNCHANGED <<musicVars, mltVars>>
           ELSE LET W == add_producer(Comp, m.v[1])
                IN  /\ musicdur' = seconds_to_frames(m.v[3])
                    /\ SetComp(W)
                    /\ music_producer' = LastId(W)
                    /\ mrem' = duration
                    /\ msegs' = <<>>
                    /\ pc' = "music_loop"
                    /\ UNCHANGED result
    /\ UNCHANGED <<frames, frames_tasks, musictask, next, duration,
                   frame_tractors, frame_playlist, counterVars, video_path,
                   meltRuns, compiled, frVars,
                   meltVars, extVars>>

AwaitMusic ==
    /\ pc = "await_music"
    /\ IsSome(musictask)
    /\ LET m == musictask.v
       IN  IF ~m.ok
           THEN /\ Return(Err(m.e))
                /\ UNCHANGED <<musicVars, mltVars>>
           ELSE LET W == add_producer(Comp, m.v[1])
                IN  /\ musicdur' = seconds_to_frames(m.v[3])
                    /\ SetComp(W)
                    /\ music_producer' = LastId(W)
                    /\ mrem' = duration
                    /\ msegs' = <<>>
                    /\ pc' = "music_loop"
                    /\ UNCHANGED result
    /\ UNCHANGED <<frames, frames_tasks, musictask, next, duration,
                   frame_tractors, frame_playlist, counterVars, video_path,
                   meltRuns, compiled, frVars,
                   meltVars, extVars>>

(***************************************************************************)
(* process, lines 185-206: one turn of the scan inside add_playlist.       *)
(***************************************************************************)
ScanTurn ==
    /\ Len(msegs) < MaxSegs
    /\ LET s == MusicScan(mrem, musicdur)
       IN  /\ ~s.stop
           /\ msegs' = Append(msegs, Entry(music_producer, 0, s.len))
           /\ mrem' = s.duration
    /\ UNCHANGED <<frames, frames_tasks, musictask, pc, next, duration,
                   frame_tractors, frame_playlist, music_producer, musicdur,
                   mltVars, counterVars, result, video_path, meltRuns,
                   compiled, frVars,
                   meltVars, extVars>>

MusicStep ==
    /\ pc = "music_loop"
    /\ ScanTurn

(***************************************************************************)
(* process, lines 185-223: the scan ends; the music playlist with its      *)
(* volume filter, then the main tractor with the mix transition.           *)
(***************************************************************************)
MusicEnd ==
    /\ pc = "music_loop"
    /\ MusicScan(mrem, musicdur).stop
    /\ LET W1 == add_playlist(Comp, msegs,
                    <<Filter("volume", {<<"max_gain", "-10dB">>})>>)
           W2 == add_tractor_with_transitions(W1,
                    <<LastId(W1), frame_playlist>>, <<>>,
                    <<Transition("mix", "0", "1", 0, duration)>>)
       IN  SetComp(W2)
    /\ pc' = "run"
    /\ UNCHANGED <<frames, frames_tasks, musictask, next, duration,
                   frame_tractors, frame_playlist, musicVars, counterVars,
                   result, video_path, meltRuns, compiled, frVars,
                   meltVars, extVars>>

(***************************************************************************)
(* Mlt::into_events: the document of the project. The consumer's in and    *)
(* out are the strings "0" and duration.to_string(); the profile's frame    *)
(* rate attributes are left out.                                           *)
(***************************************************************************)
\* A consumer whose range ends at the index of the last frame.
into_events_LastIndex(W, main_tractor, dur) ==
    [mlt      |-> [title |-> "King of the Internet", producer |-> main_tractor,
                   root |-> "/koti"],
     profile  |-> [width |-> ToString(VIDEO_WIDTH),
                   height |-> ToString(VIDEO_HEIGHT)],
     consumer |-> [f |-> "webm", target |-> "/koti/koti.webm", in |-> "0",
                   out |-> ToString(IF dur = 0 THEN 0 ELSE dur - 1),
                   mlt_service |-> "avformat"],
     events   |-> W.events]

into_events(W, main_tractor, dur) ==
    [mlt      |-> [title |-> "King of the Internet", producer |-> main_tractor,
                   root |-> "/koti"],
     profile  |-> [width |-> ToString(VIDEO_WIDTH),
                   height |-> ToString(VIDEO_HEIGHT)],
     consumer |-> [f |-> "webm", target |-> "/koti/koti.webm", in |-> "0",
                   out |-> ToString(dur), mlt_service |-> "avformat"],
     events   |-> W.events]

(***************************************************************************)
(* process, lines 225-231, and Mlt::run: the project is saved (which may   *)
(* fail), melt is started (which may fail) and exits with a status; only   *)
(* after a status of 0 is the video path set in the context.               *)
(***************************************************************************)
\* The exit statuses of melt the model draws from.
MeltStatuses == {0, 1}

\* A run that does not look at the exit status of melt.
RunMelt_IgnoreStatus ==
    /\ pc = "run"
    /\ \E out \in {"save failed", "spawn failed", "exited"} :
          CASE out = "save failed" ->
                  /\ Return(Err("Io"))
                  /\ UNCHANGED <<video_path, meltRuns, meltVars>>
            [] out = "spawn failed" ->
                  /\ Return(Err("Io"))
                  /\ project' = Some(into_events(Comp, LastId(Comp), duration))
                  /\ UNCHANGED <<video_path, meltRuns, melt_status>>
            [] OTHER ->
                  \E status \in MeltStatuses :
                      /\ project' =
                            Some(into_events(Comp, LastId(Comp), duration))
                      /\ meltRuns' = meltRuns + 1
                      /\ melt_status' = Some(status)
                      /\ Return(Ok("/koti/koti.webm"))
                      /\ video_path' = Some("/koti/koti.webm")
    /\ UNCHANGED <<frames, frames_tasks, musictask, next, duration,
                   frame_tractors, frame_playlist, musicVars, mltVars,
                   counterVars, compiled, frVars, extVars>>

RunMelt ==
    /\ pc = "run"
    /\ \E out \in {"save failed", "spawn failed", "exited"} :
          CASE out = "save failed" ->
                  /\ Return(Err("Io"))
                  /\ UNCHANGED <<video_path, meltRuns, meltVars>>
            [] out = "spawn failed" ->
                  /\ Return(Err("Io"))
                  /\ project' = Some(into_events(Comp, LastId(Comp), duration))
                  /\ UNCHANGED <<video_path, meltRuns, melt_status>>
            [] OTHER ->
                  \E status \in MeltStatuses :
                      /\ project' =
                            Some(into_events(Comp, LastId(Comp), duration))
                      /\ meltRuns' = meltRuns + 1
                      /\ melt_status' = Some(status)
                      /\ IF status # 0
                         THEN /\ Return(Err("Melt failed"))
                              /\ UNCHANGED video_path
                         ELSE /\ Return(Ok("/koti/koti.webm"))
                              /\ video_path' = Some("/koti/koti.webm")
    /\ UNCHANGED <<frames, frames_tasks, musictask, next, duration,
                   frame_tractors, frame_playlist, musicVars, mltVars,
                   counterVars, compiled, frVars, extVars>>

Next ==
    \/ Emit
    \/ EndStream
    \/ \E i \in 1..MaxFrames : Resolve(i)
    \/ MusicTask
    \/ Compile
    \/ FinishFrames
    \/ AwaitMusic
    \/ MusicStep
    \/ MusicEnd
    \/ RunMelt

Spec == Init /\ [][Next]_vars

(***************************************************************************)
(* process in a run for which an intro or an outro media file may be       *)
(* configured. process takes the frame source and the context only, and    *)
(* has a comment "TODO: intro" before and "TODO: outro" after the compile  *)
(* loop: no step reads intro or outro.                                     *)
(***************************************************************************)
InitConfigured ==
    /\ pc = "collect"
    /\ SourceInit
    /\ ProcessInit
    /\ ScanInit
    /\ CompInit
    /\ CountersInit
    /\ FrameIdle
    /\ ExtIdle
    /\ intro \in {None, Some("/koti/intro.mp4")}
    /\ outro \in {None, Some("/koti/outro.mp4")}

SpecConfigured == InitConfigured /\ [][Next]_vars

(***************************************************************************)
(* from_frame on its own, with its three sub-tasks as separate steps.      *)
(* A sub-task that was not launched is an ImmediateOrTask::Immediate,      *)
(* ready at once with Ok(None).                                            *)
(***************************************************************************)
Launched(frame) ==
    [tts     |-> IsSome(emptied(frame.tts)),
     overlay |-> IsSome(emptied(frame.overlaid)),
     image   |-> IsSome(frame.imagepath)]

Immediate == Some(Ok(None))

InitFrame ==
    /\ pc = "from_frame"
    /\ SourceInit
    /\ ProcessInit
    /\ ScanInit
    /\ CompInit
    /\ CountersInit
    /\ ExtIdle
    /\ NoConfig
    /\ \E f \in AllFrames :
          /\ fr_frame = Some(f)
          /\ fr_tts = IF Launched(f).tts THEN None ELSE Immediate
          /\ fr_overlay = IF Launched(f).overlay THEN None ELSE Immediate
          /\ fr_image = IF Launched(f).image THEN None ELSE Immediate
    /\ fr_result = None

\* The narration task ends (create_tts).
TtsDone ==
    /\ pc = "from_frame"
    /\ fr_tts = None
    /\ \E t \in TtsOutcomes(fr_frame.v, TTS_COUNTER) : fr_tts' = Some(t)
    /\ TTS_COUNTER' = FetchAdd(TTS_COUNTER)
    /\ UNCHANGED <<procVars, extVars, musicVars, mltVars, TEXT_OVERLAY_COUNT, fr_frame,
                   fr_overlay, fr_image, fr_result>>

\* The overlay task ends (text_overlay, then save_with_format).
OverlayDone ==
    /\ pc = "from_frame"
    /\ fr_overlay = None
    /\ \E o \in OverlayOutcomes(fr_frame.v, TEXT_OVERLAY_COUNT) :
          /\ fr_overlay' = Some(o)
          /\ TEXT_OVERLAY_COUNT' \in OverlayCounts(o, TEXT_OVERLAY_COUNT)
    /\ UNCHANGED <<procVars, extVars, musicVars, mltVars, TTS_COUNTER, fr_frame,
                   fr_tts, fr_image, fr_result>>

\* The image-probing task ends (image_size).
ImageDone ==
    /\ pc = "from_frame"
    /\ fr_image = None
    /\ \E g \in ImageOutcomes(fr_frame.v) : fr_image' = Some(g)
    /\ UNCHANGED <<procVars, extVars, musicVars, mltVars, counterVars, fr_frame,
                   fr_tts, fr_overlay, fr_result>>

\* A join that returns at the first failed future (a try_zip).
ZipReady_FirstError(a, b, c) ==
    \/ IsSome(a) /\ IsSome(b) /\ IsSome(c)
    \/ \E t \in {a, b, c} : IsSome(t) /\ ~t.v.ok

\* future::zip(future::zip(tts_audio, text_overlay), fg_image).await
\* returns once all three futures have an output.
ZipReady(a, b, c) == IsSome(a) /\ IsSome(b) /\ IsSome(c)

\* The output zip hands over for one future.
Output(t) == IF IsSome(t) THEN t.v ELSE Err("pending")

\* from_frame, lines 124-143: the join, the three "??" and the result.
Join ==
    /\ pc = "from_frame"
    /\ fr_result = None
    /\ ZipReady(fr_tts, fr_overlay, fr_image)
    /\ fr_result' = Some(FromFrameResult(fr_frame.v, Output(fr_tts),
                                         Output(fr_overlay), Output(fr_image)))
    /\ UNCHANGED <<procVars, extVars, musicVars, mltVars, counterVars, fr_frame,
                   fr_tts, fr_overlay, fr_image>>

NextFrame ==
    \/ TtsDone
    \/ OverlayDone
    \/ ImageDone
    \/ Join

SpecFrame == InitFrame /\ [][NextFrame]_vars

(***************************************************************************)
(* The scan of the music playlist on its own, for every master duration    *)
(* and clip length up to the bounds, and for a clip of 40 against 95.      *)
(***************************************************************************)
InitMusic ==
    /\ pc = "scan"
    /\ SourceInit
    /\ ProcessInit
    /\ CompInit
    /\ CountersInit
    /\ FrameIdle
    /\ ExtIdle
    /\ NoConfig
    /\ \/ duration \in 0..MaxD /\ musicdur \in 0..MaxM
       \/ duration = 95 /\ musicdur = 40
    /\ music_producer = ProducerId(0)
    /\ mrem = duration
    /\ msegs = <<>>

ScanStep ==
    /\ pc = "scan"
    /\ ScanTurn

ScanStop ==
    /\ pc = "scan"
    /\ MusicScan(mrem, musicdur).stop
    /\ pc' = "scanned"
    /\ UNCHANGED <<frames, frames_tasks, musictask, next, duration,
                   frame_tractors, frame_playlist, musicVars, mltVars,
                   counterVars, result, video_path, meltRuns, compiled,
                   frVars,
                   meltVars, extVars>>

NextMusic ==
    \/ ScanStep
    \/ ScanStop

SpecMusic == InitMusic /\ [][NextMusic]_vars

(***************************************************************************)
(* add_producer, add_playlist and add_tractor called in any order. A new   *)
(* Mlt (a new run in the same OS process) starts with no events, and the   *)
(* static counters go on.                                                  *)
(***************************************************************************)
InitIds ==
    /\ pc = "ids"
    /\ SourceInit
    /\ ProcessInit
    /\ ScanInit
    /\ CompInit
    /\ CountersInit
    /\ FrameIdle
    /\ ExtIdle
    /\ NoConfig

IdsUnchanged ==
    UNCHANGED <<procVars, extVars, musicVars, counterVars, frVars>>

CallProducer ==
    /\ pc = "ids"
    /\ Len(issued) < MaxCalls
    /\ SetComp(add_producer(Comp, "/koti/shot.png"))
    /\ IdsUnchanged

CallPlaylist ==
    /\ pc = "ids"
    /\ Len(issued) < MaxCalls
    /\ SetComp(add_playlist(Comp, <<>>, <<>>))
    /\ IdsUnchanged

CallTractor ==
    /\ pc = "ids"
    /\ Len(issued) < MaxCalls
    /\ SetComp(add_tractor(Comp, <<>>, <<>>))
    /\ IdsUnchanged

\* Mlt::new.
NewMlt ==
    /\ pc = "ids"
    /\ mlt_events # <<>>
    /\ mlt_events' = <<>>
    /\ UNCHANGED <<ID, issued>>
    /\ IdsUnchanged

NextIds ==
    \/ CallProducer
    \/ CallPlaylist
    \/ CallTractor
    \/ NewMlt

SpecIds == InitIds /\ [][NextIds]_vars

(***************************************************************************)
(* seconds_to_frames on its own: a duration D is converted, and so is the  *)
(* pre-summed total N * D (an f32 product, as a sum of seconds is in the   *)
(* source).                                                                *)
(***************************************************************************)
DurationsCs == (0..MaxCs) \cup {13600 + k : k \in 0..MaxCs}

InitTicks ==
    /\ pc = "ticks"
    /\ SourceInit
    /\ ProcessInit
    /\ ScanInit
    /\ CompInit
    /\ CountersInit
    /\ FrameIdle
    /\ NoConfig
    /\ tasks = <<>>
    /\ files = {}
    /\ music_at = ""
    /\ loc = None
    /\ arg \in [cs : DurationsCs, n : 1..MaxN]
    /\ ret = [each |-> None, total |-> None]

TicksUnchanged ==
    UNCHANGED <<procVars, musicVars, mltVars, counterVars, frVars, tasks,
                files, arg, intro, outro, music_at, loc>>

\* seconds_to_frames(D).
ConvertEach ==
    /\ pc = "ticks"
    /\ ret.each = None
    /\ ret' = [ret EXCEPT !.each = Some(seconds_to_frames(arg.cs))]
    /\ TicksUnchanged

\* seconds_to_frames(N * D).
ConvertTotal ==
    /\ pc = "ticks"
    /\ ret.total = None
    /\ ret' = [ret EXCEPT !.total =
                 Some(seconds_to_frames_f32(
                        f32_mul(f32_from_int(arg.n), f32_of_cs(arg.cs))))]
    /\ TicksUnchanged

NextTicks ==
    \/ ConvertEach
    \/ ConvertTotal

SpecTicks == InitTicks /\ [][NextTicks]_vars

(***************************************************************************)
(* The layout of into_tractor_2_images on its own, for two images of any   *)
(* heights from Heights (an image that was decoded has a height of at      *)
(* least one pixel).                                                       *)
(***************************************************************************)
Heights == (1..MaxH) \cup {200, 480}

InitLayout ==
    /\ pc = "layout"
    /\ SourceInit
    /\ ProcessInit
    /\ ScanInit
    /\ CompInit
    /\ CountersInit
    /\ FrameIdle
    /\ NoConfig
    /\ tasks = <<>>
    /\ files = {}
    /\ music_at = ""
    /\ loc = None
    /\ arg \in [h1 : Heights, h2 : Heights]
    /\ ret = None

\* into_tractor_2_images, lines 285-297.
CallLayout ==
    /\ pc = "layout"
    /\ ret = None
    /\ ret' = Some(Layout(arg.h1, arg.h2))
    /\ UNCHANGED <<procVars, musicVars, mltVars, counterVars, frVars, tasks,
                   files, arg, intro, outro,
                   music_at, loc>>

NextLayout == CallLayout

SpecLayout == InitLayout /\ [][NextLayout]_vars

(***************************************************************************)
(* The from_frame tasks of several frames running at the same time, step   *)
(* by step. Each task is                                                   *)
(*   tts      "none" (no narration), "start", "named" (prepare_command has *)
(*            taken a value of TTS_COUNTER), "done" or "failed"            *)
(*   tts_n    the value it took                                            *)
(*   overlay  "none", "start", "rendered" (text_overlay returned), "named" *)
(*            (it has taken a value of TEXT_OVERLAY_COUNT), "done" or      *)
(*            "failed"                                                     *)
(*   ov_n     the value it took                                            *)
(* and files holds every output file written, with the task that wrote it. *)
(***************************************************************************)
InitTasks ==
    /\ pc = "tasks"
    /\ SourceInit
    /\ ProcessInit
    /\ ScanInit
    /\ CompInit
    /\ CountersInit
    /\ FrameIdle
    /\ ExtIdle
    /\ NoConfig

TasksUnchanged ==
    UNCHANGED <<procVars, musicVars, mltVars, frVars, arg, ret, intro, outro,
                music_at, loc>>

\* process, lines 116-121: tokio::spawn(from_frame) for one more frame,
\* which spawns its narration and overlay tasks.
Spawn ==
    /\ pc = "tasks"
    /\ Len(tasks) < MaxTasks
    /\ \E f \in Frames :
          tasks' = Append(tasks,
                     [tts     |-> IF Launched(f).tts THEN "start" ELSE "none",
                      tts_n   |-> None,
                      overlay |-> IF Launched(f).overlay THEN "start"
                                  ELSE "none",
                      ov_n    |-> None])
    /\ UNCHANGED <<counterVars, files>>
    /\ TasksUnchanged

\* An increment made of a load and a later store of the loaded value + 1.
PrepareCommand_LoadThenStore(i) ==
    /\ pc = "tasks"
    /\ i \in 1..Len(tasks)
    /\ \/ /\ tasks[i].tts = "start"
          /\ tasks' = [tasks EXCEPT ![i].tts = "loaded",
                                    ![i].tts_n = Some(TTS_COUNTER)]
          /\ UNCHANGED TTS_COUNTER
       \/ /\ tasks[i].tts = "loaded"
          /\ tasks' = [tasks EXCEPT ![i].tts = "named"]
          /\ TTS_COUNTER' = tasks[i].tts_n.v + 1
    /\ UNCHANGED <<TEXT_OVERLAY_COUNT, files>>
    /\ TasksUnchanged

\* prepare_command: TTS_COUNTER.fetch_add(1, SeqCst) names the wav file.
PrepareCommand(i) ==
    /\ pc = "tasks"
    /\ i \in 1..Len(tasks)
    /\ tasks[i].tts = "start"
    /\ tasks' = [tasks EXCEPT ![i].tts = "named",
                              ![i].tts_n = Some(TTS_COUNTER)]
    /\ TTS_COUNTER' = FetchAdd(TTS_COUNTER)
    /\ UNCHANGED <<TEXT_OVERLAY_COUNT, files>>
    /\ TasksUnchanged

\* create_tts: espeak runs and writes the wav file, or fails.
Espeak(i) ==
    /\ pc = "tasks"
    /\ i \in 1..Len(tasks)
    /\ tasks[i].tts = "named"
    /\ \/ /\ tasks' = [tasks EXCEPT ![i].tts = "done"]
          /\ files' = files \cup {<<i, TtsPath(tasks[i].tts_n.v)>>}
       \/ /\ tasks' = [tasks EXCEPT ![i].tts = "failed"]
          /\ UNCHANGED files
    /\ UNCHANGED counterVars
    /\ TasksUnchanged

\* from_frame, lines 86-95: text2image::text_overlay returns or fails.
RenderOverlay(i) ==
    /\ pc = "tasks"
    /\ i \in 1..Len(tasks)
    /\ tasks[i].overlay = "start"
    /\ \E st \in {"rendered", "failed"} :
          tasks' = [tasks EXCEPT ![i].overlay = st]
    /\ UNCHANGED <<counterVars, files>>
    /\ TasksUnchanged

\* from_frame, lines 97-100: TEXT_OVERLAY_COUNT.fetch_add(1, SeqCst) names
\* the png file.
NameOverlay(i) ==
    /\ pc = "tasks"
    /\ i \in 1..Len(tasks)
    /\ tasks[i].overlay = "rendered"
    /\ tasks' = [tasks EXCEPT ![i].overlay = "named",
                              ![i].ov_n = Some(TEXT_OVERLAY_COUNT)]
    /\ TEXT_OVERLAY_COUNT' = FetchAdd(TEXT_OVERLAY_COUNT)
    /\ UNCHANGED <<TTS_COUNTER, files>>
    /\ TasksUnchanged

\* from_frame, lines 101-105: save_with_format writes the png file, or
\* fails.
SaveOverlay(i) ==
    /\ pc = "tasks"
    /\ i \in 1..Len(tasks)
    /\ tasks[i].overlay = "named"
    /\ \/ /\ tasks' = [tasks EXCEPT ![i].overlay = "done"]
          /\ files' = files \cup {<<i, OverlayPath(tasks[i].ov_n.v)>>}
       \/ /\ tasks' = [tasks EXCEPT ![i].overlay = "failed"]
          /\ UNCHANGED files
    /\ UNCHANGED counterVars
    /\ TasksUnchanged

NextTasks ==
    \/ Spawn
    \/ \E i \in 1..MaxTasks : PrepareCommand(i)
    \/ \E i \in 1..MaxTasks : Espeak(i)
    \/ \E i \in 1..MaxTasks : RenderOverlay(i)
    \/ \E i \in 1..MaxTasks : NameOverlay(i)
    \/ \E i \in 1..MaxTasks : SaveOverlay(i)

SpecTasks == InitTasks /\ [][NextTasks]_vars

(***************************************************************************)
(* A function stepped on its own: process and its tasks are idle; arg is   *)
(* the function's input, loc its locals, ret its result.                   *)
(***************************************************************************)
Alone(p) ==
    /\ pc = p
    /\ SourceInit
    /\ ProcessInit
    /\ ScanInit
    /\ CompInit
    /\ CountersInit
    /\ FrameIdle
    /\ NoConfig
    /\ tasks = <<>>
    /\ files = {}
    /\ music_at = ""

AloneUnchanged ==
    UNCHANGED <<procVars, musicVars, mltVars, counterVars, frVars, tasks,
                files, intro, outro, music_at>>

(***************************************************************************)
(* text2image.rs: word_glyphs and text_overlay. Lengths are whole pixels.  *)
(* A word is known by its width; the glyphs of a word are kept as the      *)
(* place <<x, y>> the word is put at.                                      *)
(*   arg  words (the widths of the non-empty words), max_image_width,      *)
(*        max_image_height                                                 *)
(*   loc  i: the word the scan takes next; x, y: the scan's state;         *)
(*        overflow: word_glyphs' local "let mut overflow";                 *)
(*        captured: the copy of overflow the "move" closure of the scan    *)
(*        owns (a bool is Copy, so the closure captures a copy by value);  *)
(*        ended: the closure has returned None; glyphs: collected so far   *)
(***************************************************************************)
\* The width of a space and v_metrics.line_gap + v_metrics.ascent.
SpaceWidth == 1
LineHeight == 4
\* The widths of the words.
WordWidths == {3, 6, 9}

InitGlyphs ==
    /\ Alone("glyphs")
    /\ arg \in [words : UNION {[1..n -> WordWidths] : n \in 0..MaxWords},
                max_image_width : {8},
                max_image_height : {3, 7, 20}]
    /\ loc = [i |-> 1, x |-> 0, y |-> 0, overflow |-> FALSE,
              captured |-> FALSE, ended |-> FALSE, glyphs |-> <<>>]
    /\ ret = None

\* One call of the scan's closure (lines 94-147) on the next word.
ScanWord ==
    /\ pc = "glyphs"
    /\ ret = None
    /\ ~loc.ended
    /\ loc.i <= Len(arg.words)
    /\ LET word_width == arg.words[loc.i]
       IN  IF loc.captured
           THEN loc' = [loc EXCEPT !.ended = TRUE]
           ELSE IF word_width + loc.x > arg.max_image_width
           THEN IF loc.y + LineHeight > arg.max_image_height
                THEN loc' = [loc EXCEPT !.x = word_width,
                                        !.y = loc.y + LineHeight,
                                        !.captured = TRUE,
                                        !.ended = TRUE]
                ELSE loc' = [loc EXCEPT !.x = word_width,
                                        !.y = loc.y + LineHeight,
                                        !.i = loc.i + 1,
                                        !.glyphs = Append(loc.glyphs,
                                            <<0, loc.y + LineHeight>>)]
           ELSE loc' = [loc EXCEPT !.x = loc.x + word_width + SpaceWidth,
                                   !.i = loc.i + 1,
                                   !.glyphs = Append(loc.glyphs,
                                                     <<loc.x, loc.y>>)]
    /\ UNCHANGED <<arg, ret>>
    /\ AloneUnchanged

\* word_glyphs, lines 151-155, on its local overflow and the glyphs.
word_glyphs_result(overflow, glyphs) ==
    IF overflow THEN Err("GlyphOverflow") ELSE Ok(glyphs)

\* text_overlay, lines 204-258, on the result of word_glyphs: the error is
\* passed on, no glyph at all fails expect("Empty string?"), else the image
\* (here: the places of its words).
text_overlay_result(g) ==
    IF ~g.ok THEN g
    ELSE IF g.v = <<>> THEN [ok |-> FALSE, e |-> "panic: Empty string?",
                             panic |-> TRUE]
    ELSE Ok([image |-> g.v])

\* collect() has ended (the closure returned None or the words ran out);
\* word_glyphs returns and text_overlay goes on with its result.
GlyphsReturn ==
    /\ pc = "glyphs"
    /\ ret = None
    /\ loc.ended \/ loc.i > Len(arg.words)
    /\ ret' = Some(text_overlay_result(
                     word_glyphs_result(loc.overflow, loc.glyphs)))
    /\ UNCHANGED <<arg, loc>>
    /\ AloneUnchanged

NextGlyphs ==
    \/ ScanWord
    \/ GlyphsReturn

SpecGlyphs == InitGlyphs /\ [][NextGlyphs]_vars

(***************************************************************************)
(* thumbnail/template.rs: ThumbnailTemplate::apply. The task that renders  *)
(* the text calls text_overlay in a loop; what a call returns is drawn     *)
(* from the results text_overlay's type allows.                            *)
(*   loc  current_size: the font size of the next render;                  *)
(*        rendered: the <<font size, outcome>> of every render (history);  *)
(*        timage: what the rendering task returned, None while it loops    *)
(***************************************************************************)
\* What a call of text_overlay may end with.
RenderOutcomes == {"ok", "GlyphOverflow", "Io"}

InitThumb ==
    /\ Alone("apply")
    /\ arg = Some("Title of the video")
    /\ loc = [current_size |-> StartSize, rendered |-> <<>>, timage |-> None]
    /\ ret = None

\* A loop that gives up only once the size has dropped below 0.
GiveUp_BelowZero(size) == size < 0

\* if current_size < 1.0f32.
GiveUp(size) == size < 1

\* One turn of the loop, lines 66-89.
Render ==
    /\ pc = "apply"
    /\ loc.timage = None
    /\ \E res \in RenderOutcomes :
          LET seen == Append(loc.rendered, <<loc.current_size, res>>)
          IN  CASE res = "ok" ->
                     loc' = [loc EXCEPT !.rendered = seen,
                                        !.timage = Some(Ok("timage"))]
                [] res = "GlyphOverflow" ->
                     IF GiveUp(loc.current_size - 1)
                     THEN loc' = [loc EXCEPT
                                    !.rendered = seen,
                                    !.current_size = loc.current_size - 1,
                                    !.timage = Some(Err("GlyphOverflow"))]
                     ELSE loc' = [loc EXCEPT
                                    !.rendered = seen,
                                    !.current_size = loc.current_size - 1]
                [] OTHER ->
                     loc' = [loc EXCEPT !.rendered = seen,
                                        !.timage = Some(Err(res))]
    /\ UNCHANGED <<arg, ret>>
    /\ AloneUnchanged

\* Lines 94-103: the base image and the text image are awaited, the base
\* image first; the text is laid over it and the thumbnail is saved.
ApplyReturn ==
    /\ pc = "apply"
    /\ ret = None
    /\ IsSome(loc.timage)
    /\ \E base \in {Ok("base"), Err("Image")},
          saved \in {Ok("/koti/thumbnail.png"), Err("Image")} :
          ret' = Some(IF ~base.ok THEN base
                      ELSE IF ~loc.timage.v.ok THEN loc.timage.v
                      ELSE saved)
    /\ UNCHANGED <<arg, loc>>
    /\ AloneUnchanged

NextThumb ==
    \/ Render
    \/ ApplyReturn

SpecThumb == InitThumb /\ [][NextThumb]_vars

(***************************************************************************)
(* context.rs: ContextCore, the fields of a Context.                       *)
(***************************************************************************)
ContextFields ==
    {"thumbnail_template", "thumbnail_text", "thumbnail_path", "video_title",
     "video_path", "basedir", "datadir"}

\* Context::default(): no field holds a value.
DefaultContext == [f \in ContextFields |-> None]

(***************************************************************************)
(* main.rs: the driver's loop "for i in 0..10" around create_video.        *)
(*   loc  i: the loop variable; running: an attempt is under way;          *)
(*        ctx: the Context of the current attempt; started: per attempt,   *)
(*        the Context it began with and its scratch directory (history);   *)
(*        exit: None while the driver runs, Some(0) once main has          *)
(*        returned, Some(1) after exit(1)                                  *)
(***************************************************************************)
\* The names homedir.join(format!("koti{}", tls_rng().generate())) may give.
DirNames == {"/home/koti1", "/home/koti2"}

\* What an attempt may leave in its Context.
UsedContexts ==
    {[DefaultContext EXCEPT !.basedir = Some(d),
                            !.datadir = Some("/data"),
                            !.video_title = t,
                            !.video_path = v] :
        d \in DirNames, t \in {None, Some("Title")},
        v \in {None, Some("/koti/koti.webm")}}

InitDriver ==
    /\ Alone("driver")
    /\ arg = None
    /\ loc = [i |-> 0, running |-> FALSE, ctx |-> DefaultContext,
              started |-> <<>>, exit |-> None]
    /\ ret = None

\* A create_video that goes on with the Context of the attempt before.
NewContext_Reused(old) == old

\* create_video, line 87: Arc::new(context::Context::default()).
NewContext(old) == DefaultContext

\* The loop after create_video returned Err in turn i: exit(1) in the last
\* turn, else the next turn.
Failed(l) ==
    IF l.i = MaxAttempts - 1
    THEN [l EXCEPT !.running = FALSE, !.exit = Some(1)]
    ELSE [l EXCEPT !.running = FALSE, !.i = l.i + 1]

\* The loop takes a turn: create_video makes its Context and its scratch
\* directory (lines 85-98); create_dir_all may fail.
StartAttempt ==
    /\ pc = "driver"
    /\ loc.exit = None
    /\ ~loc.running
    /\ loc.i < MaxAttempts
    /\ \E d \in DirNames, created \in BOOLEAN :
          LET ctx   == NewContext(loc.ctx)
              begun == [loc EXCEPT
                          !.started = Append(loc.started,
                                             [ctx |-> ctx, basedir |-> d]),
                          !.ctx = ctx]
          IN  /\ IF created
                 THEN loc' = [begun EXCEPT !.running = TRUE,
                                           !.ctx.basedir = Some(d),
                                           !.ctx.datadir = Some("/data")]
                 ELSE loc' = Failed(begun)
              /\ ret' = IF created THEN ret ELSE Some("err")
    /\ UNCHANGED arg
    /\ AloneUnchanged

\* The attempt ends (lines 449-468): Ok(Ok(())) and a panic leave the loop,
\* after which main returns; Ok(Err(e)) is a failed attempt.
EndAttempt ==
    /\ pc = "driver"
    /\ loc.running
    /\ \E out \in {"ok", "err", "panic"}, used \in UsedContexts :
          /\ used.basedir = loc.ctx.basedir
          /\ ret' = Some(out)
          /\ LET l == [loc EXCEPT !.ctx = used]
             IN  IF out = "err" THEN loc' = Failed(l)
                 ELSE loc' = [l EXCEPT !.running = FALSE, !.exit = Some(0)]
    /\ UNCHANGED arg
    /\ AloneUnchanged

NextDriver ==
    \/ StartAttempt
    \/ EndAttempt

SpecDriver == InitDriver /\ [][NextDriver]_vars

(***************************************************************************)
(* context.rs: the set-once and take-once methods of Context, called in    *)
(* any order by the tasks that share it. A panic unwinds the calling task  *)
(* and releases the lock (tokio's Mutex is not poisoned); the Context      *)
(* stays in use.                                                           *)
(*   loc  core: the ContextCore                                            *)
(*   ret  the last call: its method (op), its field f, its argument or     *)
(*        returned value v, and whether it panicked                        *)
(***************************************************************************)
\* The values handed to the setters.
Values == {"a", "b"}
\* The fields with a setter of their own, with a take_ method, with a
\* cloning getter.
SetFields == {"basedir", "datadir", "video_title", "video_path",
              "thumbnail_path"}
TakeFields == {"video_title", "video_path", "thumbnail_path",
               "thumbnail_text", "thumbnail_template"}
GetFields == {"basedir", "datadir"}

\* A setter that overwrites without complaint.
set_once_Overwrite(core, f, v) ==
    [core |-> [core EXCEPT ![f] = Some(v)], panic |-> FALSE]

\* if mem::replace(&mut core.f, Some(v)).is_some() { panic!(..) }: the new
\* value is stored before the panic.
set_once(core, f, v) ==
    [core |-> [core EXCEPT ![f] = Some(v)], panic |-> IsSome(core[f])]

\* core.f.take().expect(..).
take_once(core, f) ==
    IF IsSome(core[f])
    THEN [core |-> [core EXCEPT ![f] = None], panic |-> FALSE,
          v |-> core[f].v]
    ELSE [core |-> core, panic |-> TRUE, v |-> ""]

\* core.f.clone().unwrap().
get(core, f) ==
    IF IsSome(core[f]) THEN [core |-> core, panic |-> FALSE, v |-> core[f].v]
    ELSE [core |-> core, panic |-> TRUE, v |-> ""]

\* set_thumbnail: the text, then the template; the second replace is not
\* reached if the first panics.
set_thumbnail(core, text, template) ==
    LET t == set_once(core, "thumbnail_text", text)
    IN  IF t.panic THEN t
        ELSE set_once(t.core, "thumbnail_template", template)

Called(op, f, v, panic) == Some([op |-> op, f |-> f, v |-> v, panic |-> panic])

InitContext ==
    /\ Alone("context")
    /\ arg = None
    /\ loc = [core |-> DefaultContext]
    /\ ret = None

SetField ==
    /\ pc = "context"
    /\ \E f \in SetFields, v \in Values :
          LET r == set_once(loc.core, f, v)
          IN  /\ loc' = [loc EXCEPT !.core = r.core]
              /\ ret' = Called("set", f, v, r.panic)
    /\ UNCHANGED arg
    /\ AloneUnchanged

SetThumbnail ==
    /\ pc = "context"
    /\ \E v \in Values :
          LET r == set_thumbnail(loc.core, v, v)
          IN  /\ loc' = [loc EXCEPT !.core = r.core]
              /\ ret' = Called("set_thumbnail", "thumbnail_text", v, r.panic)
    /\ UNCHANGED arg
    /\ AloneUnchanged

TakeField ==
    /\ pc = "context"
    /\ \E f \in TakeFields :
          LET r == take_once(loc.core, f)
          IN  /\ loc' = [loc EXCEPT !.core = r.core]
              /\ ret' = Called("take", f, r.v, r.panic)
    /\ UNCHANGED arg
    /\ AloneUnchanged

GetField ==
    /\ pc = "context"
    /\ \E f \in GetFields :
          LET r == get(loc.core, f)
          IN  /\ loc' = [loc EXCEPT !.core = r.core]
              /\ ret' = Called("get", f, r.v, r.panic)
    /\ UNCHANGED arg
    /\ AloneUnchanged

\* reset: *core = Default::default().
Reset ==
    /\ pc = "context"
    /\ loc' = [loc EXCEPT !.core = DefaultContext]
    /\ ret' = Called("reset", "", "", FALSE)
    /\ UNCHANGED arg
    /\ AloneUnchanged

NextContext ==
    \/ SetField
    \/ SetThumbnail
    \/ TakeField
    \/ GetField
    \/ Reset

SpecContext == InitContext /\ [][NextContext]_vars

(***************************************************************************)
(* util.rs: timeout(fut, seconds) = future::or(fut mapped by Ok, sleep     *)
(* mapped to Err(Timeout)). The clock counts whole seconds from the call.  *)
(* The combined future is polled by the runtime some time after it was     *)
(* woken: the clock may advance between the moment fut or the sleep        *)
(* becomes ready and the poll that sees it.                                *)
(*   arg  seconds: the budget; done_at: the second at which fut becomes    *)
(*        ready, None if never; v: its value                               *)
(*   loc  now: the clock; polled_at: the time of the poll that returned    *)
(*        Ready (history)                                                  *)
(***************************************************************************)
Pending == [ready |-> FALSE]
Ready(v) == [ready |-> TRUE, v |-> v]

\* MapFuture::poll: Pending stays Pending, Ready(g) becomes Ready(f(g)).
MapReady(p, mapped) == IF p.ready THEN Ready(mapped) ELSE Pending

\* An or that prefers its second future when both are ready.
future_or_SecondFirst(a, b) == IF b.ready THEN b ELSE a

\* futures_lite::future::or: polls the first future, then the second; the
\* first is preferred when both are ready.
future_or(a, b) == IF a.ready THEN a ELSE b

\* One poll of timeout(fut, seconds) at the time now.
timeout(fut, seconds, now) ==
    future_or(MapReady(IF IsSome(fut.done_at) /\ fut.done_at.v <= now
                       THEN Ready(fut.v) ELSE Pending, Ok(fut.v)),
              MapReady(IF now >= seconds THEN Ready("") ELSE Pending,
                       Err("Timeout")))

InitTimeout ==
    /\ Alone("timeout")
    /\ arg \in [seconds : 1..MaxT, v : {1, 2},
                 done_at : {None} \cup {Some(t) : t \in 0..MaxT}]
    /\ loc = [now |-> 0, polled_at |-> None]
    /\ ret = None

\* A second passes.
Tick ==
    /\ pc = "timeout"
    /\ ret = None
    /\ loc.now <= MaxT
    /\ loc' = [loc EXCEPT !.now = loc.now + 1]
    /\ UNCHANGED <<arg, ret>>
    /\ AloneUnchanged

\* The runtime polls the future and it is Ready (a poll that returns
\* Pending changes nothing).
PollTimeout ==
    /\ pc = "timeout"
    /\ ret = None
    /\ LET r == timeout(arg, arg.seconds, loc.now)
       IN  /\ r.ready
           /\ ret' = Some(r.v)
           /\ loc' = [loc EXCEPT !.polled_at = Some(loc.now)]
    /\ UNCHANGED arg
    /\ AloneUnchanged

NextTimeout ==
    \/ Tick
    \/ PollTimeout

SpecTimeout == InitTimeout /\ [][NextTimeout]_vars

(***************************************************************************)
(* filter.rs: filter_text and filter_pass. A string is the sequence of its *)
(* characters.                                                             *)
(***************************************************************************)
\* The characters of the texts filtered in the model.
Alphabet == {"f", "a", "g", "G", "p", "o", "r", "n", "R", " "}

\* The alternatives of FILTER_REGEX.
FilterWords ==
    {<<"n", "i", "g", "g">>, <<"f", "a", "g">>, <<"p", "o", "r", "n">>,
     <<"m", "a", "s", "t", "u", "r", "b">>, <<"b", "i", "d", "e", "n">>,
     <<"t", "r", "u", "m", "p">>}

\* The case folding the flag (?i) applies to a character.
Fold(c) == CASE c = "G" -> "g" [] c = "R" -> "r" [] OTHER -> c

\* The alternative w matches s from the i-th character on, ignoring case.
MatchesAt(s, i, w) ==
    /\ i + Len(w) - 1 <= Len(s)
    /\ \A k \in 1..Len(w) : Fold(s[i + k - 1]) = w[k]

\* A search without the flag (?i).
is_match_CaseSensitive(s) ==
    \E i \in 1..Len(s) : \E w \in FilterWords :
        /\ i + Len(w) - 1 <= Len(s)
        /\ \A k \in 1..Len(w) : s[i + k - 1] = w[k]

\* FILTER_REGEX.is_match(s): the regex is not anchored, so it is tried from
\* every character of s.
is_match(s) ==
    \E i \in 1..Len(s) : \E w \in FilterWords : MatchesAt(s, i, w)

filter_text(s) == IF is_match(s) THEN Err("DisallowedWord") ELSE Ok("()")

\* filter_text(&s).map(|()| s).
filter_pass(s) ==
    LET r == filter_text(s) IN IF r.ok THEN Ok(s) ELSE r

InitFilter ==
    /\ Alone("filter")
    /\ arg \in UNION {[1..n -> Alphabet] : n \in 0..MaxChars}
    /\ loc = None
    /\ ret = None

CallFilter ==
    /\ pc = "filter"
    /\ ret = None
    /\ ret' = Some([text |-> filter_text(arg), pass |-> filter_pass(arg)])
    /\ UNCHANGED <<arg, loc>>
    /\ AloneUnchanged

NextFilter == CallFilter

SpecFilter == InitFilter /\ [][NextFilter]_vars

(***************************************************************************)
(* main.rs: create_video from line 105 on. Two tasks share the Context:    *)
(* t1 runs the frame source, which calls set_thumbnail once it has the     *)
(* title; t2 runs create_thumbnail, which loads the templates and then     *)
(* calls wait_for_thumbnail. create_video awaits zip(t1, t2).              *)
(* Context::thumbnail_ready is an event_listener::Event: listen()          *)
(* registers a listener, notify_additional(usize::MAX) notifies the        *)
(* listeners registered at that moment and leaves nothing behind for a     *)
(* listener registered later.                                              *)
(*   arg  the subreddit of the frame source drawn, the title it finds      *)
(*   loc  t1: "run", "titled" (set_thumbnail has returned), "ok",          *)
(*            "failed"; failed_early: t1 failed before set_thumbnail;      *)
(*        t2: "load", "loaded", "waiting" (listening), "woken", "ok",      *)
(*            "failed";                                                    *)
(*        listening: t2's listener is registered and not yet notified;     *)
(*        core: the ContextCore                                            *)
(*   ret  what create_video returned, None before                          *)
(***************************************************************************)
Subreddits == {"AskReddit", "TalesFromTechSupport", "StoresAboutKevin",
               "NoSleep"}
Titles == {"What is it?", "Why?"}

InitCreateVideo ==
    /\ Alone("create_video")
    /\ arg \in [subreddit : Subreddits, title : Titles]
    /\ loc = [t1 |-> "run", failed_early |-> FALSE, t2 |-> "load",
              listening |-> FALSE,
              core |-> [DefaultContext EXCEPT !.basedir = Some("/home/koti1"),
                                              !.datadir = Some("/data")]]
    /\ ret = None

\* The frame source fails before it has a title (reddit_text_source,
\* lines 559-578).
VideoFailsEarly ==
    /\ pc = "create_video"
    /\ loc.t1 = "run"
    /\ loc' = [loc EXCEPT !.t1 = "failed", !.failed_early = TRUE]
    /\ UNCHANGED <<arg, ret>>
    /\ AloneUnchanged

\* reddit_text_source, lines 580-585: set_thumbnail stores the text and
\* the template and notifies the listeners registered now.
VideoSetsThumbnail ==
    /\ pc = "create_video"
    /\ loc.t1 = "run"
    /\ LET r == set_thumbnail(loc.core,
                              "/r/" \o arg.subreddit \o " - " \o arg.title,
                              "reddit_text.json")
       IN  loc' = [loc EXCEPT !.core = r.core,
                              !.t1 = IF r.panic THEN "failed" ELSE "titled",
                              !.listening = FALSE,
                              !.t2 = IF loc.listening THEN "woken" ELSE @]
    /\ UNCHANGED <<arg, ret>>
    /\ AloneUnchanged

\* The rest of the frame source and process: Ok or an error.
VideoEnds ==
    /\ pc = "create_video"
    /\ loc.t1 = "titled"
    /\ \E end \in {"ok", "failed"} : loc' = [loc EXCEPT !.t1 = end]
    /\ UNCHANGED <<arg, ret>>
    /\ AloneUnchanged

\* create_thumbnail, line 31: load_thumbnails(&ctx).await?.
LoadThumbnails ==
    /\ pc = "create_video"
    /\ loc.t2 = "load"
    /\ \E end \in {"loaded", "failed"} : loc' = [loc EXCEPT !.t2 = end]
    /\ UNCHANGED <<arg, ret>>
    /\ AloneUnchanged

\* create_thumbnail, line 34, and wait_for_thumbnail:
\* thumbnail_ready.listen() registers the listener, which is then awaited.
Listen ==
    /\ pc = "create_video"
    /\ loc.t2 = "loaded"
    /\ loc' = [loc EXCEPT !.t2 = "waiting", !.listening = TRUE]
    /\ UNCHANGED <<arg, ret>>
    /\ AloneUnchanged

\* create_thumbnail, lines 38-54, after the listener was notified: the
\* text and the template are taken, the template is applied.
MakeThumbnail ==
    /\ pc = "create_video"
    /\ loc.t2 = "woken"
    /\ LET text     == take_once(loc.core, "thumbnail_text")
           template == take_once(text.core, "thumbnail_template")
       IN  \E end \in {"ok", "failed"} :
              loc' = [loc EXCEPT
                        !.core = IF end = "ok" /\ ~text.panic /\ ~template.panic
                                 THEN [template.core EXCEPT
                                         !.thumbnail_path =
                                            Some("/koti/thumbnail.png")]
                                 ELSE template.core,
                        !.t2 = IF text.panic \/ template.panic
                               THEN "failed" ELSE end]
    /\ UNCHANGED <<arg, ret>>
    /\ AloneUnchanged

\* create_video, lines 117-119: zip(t1, t2) is ready once both tasks have
\* ended; t1's error is returned before t2's.
ZipReturns ==
    /\ pc = "create_video"
    /\ ret = None
    /\ loc.t1 \in {"ok", "failed"}
    /\ loc.t2 \in {"ok", "failed"}
    /\ ret' = Some(IF loc.t1 = "failed" THEN Err("t1")
                   ELSE IF loc.t2 = "failed" THEN Err("t2")
                   ELSE Ok("()"))
    /\ UNCHANGED <<arg, loc>>
    /\ AloneUnchanged

NextCreateVideo ==
    \/ VideoFailsEarly
    \/ VideoSetsThumbnail
    \/ VideoEnds
    \/ LoadThumbnails
    \/ Listen
    \/ MakeThumbnail
    \/ ZipReturns

\* Every task that can take a step takes one in the end: the runtime
\* keeps polling the tasks that are ready.
SpecCreateVideo ==
    /\ InitCreateVideo
    /\ [][NextCreateVideo]_vars
    /\ WF_vars(VideoSetsThumbnail \/ VideoFailsEarly)
    /\ WF_vars(VideoEnds)
    /\ WF_vars(LoadThumbnails)
    /\ WF_vars(Listen)
    /\ WF_vars(MakeThumbnail)
    /\ WF_vars(ZipReturns)

(***************************************************************************)
(* The join of from_frame with the errors of the three sub-tasks told      *)
(* apart: each error carries what failed (the ImageError of the overlay    *)
(* names the overlay file, that of the probe the image file; a JoinError   *)
(* names its task), and loc.order records the order in which the           *)
(* sub-tasks ended.                                                        *)
(***************************************************************************)
Subtasks == <<"tts", "overlay", "image">>

\* What a launched sub-task may end with (an immediate one is Ok(None)).
SubtaskOutcomes(task) ==
    CASE task = "tts" ->
            {Ok(Some(<<TtsPath(0), 4850>>)), Err("EspeakError"),
             Err("Join(tts)")}
      [] task = "overlay" ->
            {Ok(Some(<<OverlayPath(0), 800, 200>>)),
             Err("Image(text_overlay0.png)"), Err("Join(overlay)")}
      [] OTHER ->
            {Ok(Some(<<"/koti/shot.png", 640, 480>>)), Err("Image(shot.png)")}

InitJoin ==
    /\ Alone("join")
    /\ arg \in AllFrames
    /\ loc = [tts     |-> IF Launched(arg).tts THEN None ELSE Immediate,
              overlay |-> IF Launched(arg).overlay THEN None ELSE Immediate,
              image   |-> IF Launched(arg).image THEN None ELSE Immediate,
              order   |-> <<>>]
    /\ ret = None

\* One of the spawned sub-tasks ends (lines 72-121).
SubtaskEnds ==
    /\ pc = "join"
    /\ \E n \in 1..Len(Subtasks) :
          /\ loc[Subtasks[n]] = None
          /\ \E o \in SubtaskOutcomes(Subtasks[n]) :
                loc' = [loc EXCEPT ![Subtasks[n]] = Some(o),
                                   !.order = Append(@, Subtasks[n])]
    /\ UNCHANGED <<arg, ret>>
    /\ AloneUnchanged

\* from_frame, lines 124-143: the zip returns, then the three "??".
JoinAll ==
    /\ pc = "join"
    /\ ret = None
    /\ ZipReady(loc.tts, loc.overlay, loc.image)
    /\ ret' = Some(FromFrameResult(arg, Output(loc.tts), Output(loc.overlay),
                                   Output(loc.image)))
    /\ UNCHANGED <<arg, loc>>
    /\ AloneUnchanged

NextJoin ==
    \/ SubtaskEnds
    \/ JoinAll

SpecJoin == InitJoin /\ [][NextJoin]_vars

(***************************************************************************)
(* The music task's reading of ffmpeg's "Duration: HH:MM:SS.cc" line: the  *)
(* four captures of the regex, each parsed as usize and cast to f32, are   *)
(* folded into a sum of value * multiplier, in f32.                        *)
(***************************************************************************)
\* The two-digit values the fields take in the model.
Hours == {0, 1, 2}
Minutes == {0, 3, 59}
Seconds == {0, 7, 59}
Hundredths == {0, 2, 50, 99}

\* The multipliers of the fold, by the index of the capture: 360.0, 60.0,
\* 1.0 and 0.01.
Multiplier(index) ==
    CASE index = 0 -> f32_from_int(360)
      [] index = 1 -> f32_from_int(60)
      [] index = 2 -> f32_from_int(1)
      [] OTHER -> f32_of_cs(1)

\* fold(0.0, |sum, (index, value)| sum + (value * multiplier)) over the
\* captures caps = <<HH, MM, SS, cc>>.
RECURSIVE FoldTotal(_, _, _)
FoldTotal(caps, index, sum) ==
    IF index = Len(caps) THEN sum
    ELSE FoldTotal(caps, index + 1,
                   f32_add(sum, f32_mul(f32_from_int(caps[index + 1]),
                                        Multiplier(index))))

music_total(caps) == FoldTotal(caps, 0, F32(0, 0))

InitProbe ==
    /\ Alone("probe")
    /\ arg \in Hours \X Minutes \X Seconds \X Hundredths
    /\ loc = None
    /\ ret = None

\* The music task reads the duration off ffmpeg's output.
Probe ==
    /\ pc = "probe"
    /\ ret = None
    /\ ret' = Some(music_total(arg))
    /\ UNCHANGED <<arg, loc>>
    /\ AloneUnchanged

NextProbe == Probe

SpecProbe == InitProbe /\ [][NextProbe]_vars

(***************************************************************************)
(* direct_children: the loop over the events of the XML reader, for every  *)
(* well-nested document of up to MaxElems elements. The document is not    *)
(* drawn beforehand: each step the reader hands over the start tag of a    *)
(* new element, the end tag of the innermost open one, or Eof once all are *)
(* closed. A class attribute is known by which of the words "child",       *)
(* "sitetable" and "comment" occur in it (at most one of them, as in the   *)
(* pages the comment source reads); an element that has an id has its      *)
(* number in the document as the id.                                       *)
(*   StateMachine: the sequence of its counters, the current depth first:  *)
(*   IgnoringTopLevel(i) = <<i>>, ChildTag(c, i) = <<c, i>>, and so on.    *)
(*   loc.stack: the open elements; loc.yielded: what the generator has     *)
(*   yielded, each with whether it was a direct child and whether it was   *)
(*   opened inside a yielded comment; loc.direct: the ids of the direct    *)
(*   children met so far (both are history).                               *)
(***************************************************************************)
IgnoringTopLevel(i) == <<i>>
ChildTag(c, i) == <<c, i>>
SitetableTag(st, c, i) == <<st, c, i>>
ThingTag(t, st, c, i) == <<t, st, c, i>>

\* The start tags the reader may hand over: name, class words, has an id.
StartTags ==
    {[name |-> "div", class |-> {"child"}, has_id |-> FALSE],
     [name |-> "div", class |-> {"sitetable"}, has_id |-> TRUE],
     [name |-> "div", class |-> {"comment"}, has_id |-> TRUE],
     [name |-> "div", class |-> {"comment"}, has_id |-> FALSE],
     [name |-> "div", class |-> {}, has_id |-> TRUE],
     [name |-> "p", class |-> {"comment"}, has_id |-> TRUE]}

\* subsequence(container, test): test occurs in container.
subsequence(container, test) == test \in container

\* *self.depth() += 1.
Deeper(sm) == [sm EXCEPT ![1] = @ + 1]

\* A process_start that hands over the id of every div of class comment,
\* whatever the state.
process_start_YieldAnyComment(sm, bytes) ==
    IF bytes.name = "div" /\ subsequence(bytes.class, "child") /\ Len(sm) = 1
    THEN [sm |-> ChildTag(0, sm[1]), id |-> None]
    ELSE IF bytes.name = "div" /\ subsequence(bytes.class, "sitetable")
            /\ Len(sm) = 2
    THEN [sm |-> SitetableTag(0, sm[1], sm[2]), id |-> None]
    ELSE IF bytes.name = "div" /\ subsequence(bytes.class, "comment")
    THEN [sm |-> IF Len(sm) = 3 THEN ThingTag(0, sm[1], sm[2], sm[3])
                 ELSE Deeper(sm),
          id |-> bytes.id]
    ELSE [sm |-> Deeper(sm), id |-> None]

\* StateMachine::process_start: the new state and the id handed over.
process_start(sm, bytes) ==
    IF bytes.name = "div" /\ subsequence(bytes.class, "child") /\ Len(sm) = 1
    THEN [sm |-> ChildTag(0, sm[1]), id |-> None]
    ELSE IF bytes.name = "div" /\ subsequence(bytes.class, "sitetable")
            /\ Len(sm) = 2
    THEN [sm |-> SitetableTag(0, sm[1], sm[2]), id |-> None]
    ELSE IF bytes.name = "div" /\ subsequence(bytes.class, "comment")
            /\ Len(sm) = 3
    THEN [sm |-> ThingTag(0, sm[1], sm[2], sm[3]), id |-> bytes.id]
    ELSE [sm |-> Deeper(sm), id |-> None]

\* A process_end that leaves ChildTag for IgnoringTopLevel(0), dropping
\* the depth it had kept.
process_end_DropsDepth(sm) ==
    IF sm[1] > 0 THEN [sm |-> [sm EXCEPT ![1] = @ - 1], panic |-> FALSE]
    ELSE IF Len(sm) = 1 THEN [sm |-> sm, panic |-> TRUE]
    ELSE IF Len(sm) = 2 THEN [sm |-> IgnoringTopLevel(0), panic |-> FALSE]
    ELSE [sm |-> Tail(sm), panic |-> FALSE]

\* StateMachine::process_end: the new state, or the panic! of line 148.
process_end(sm) ==
    IF sm[1] > 0 THEN [sm |-> [sm EXCEPT ![1] = @ - 1], panic |-> FALSE]
    ELSE IF Len(sm) = 1 THEN [sm |-> sm, panic |-> TRUE]
    ELSE [sm |-> Tail(sm), panic |-> FALSE]

InitChildren ==
    /\ Alone("direct_children")
    /\ arg = None
    /\ ret = None
    /\ loc = [stack |-> <<>>, opened |-> 0, sm |-> IgnoringTopLevel(0),
              yielded |-> <<>>, direct |-> <<>>, panicked |-> FALSE]

\* The element now opened is a comment div with an id nested as
\* top > div.child > div.sitetable > div.comment.
IsDirectChild(stack, bytes) ==
    /\ bytes.name = "div" /\ "comment" \in bytes.class /\ IsSome(bytes.id)
    /\ Len(stack) = 3
    /\ stack[2].name = "div" /\ "child" \in stack[2].class
    /\ stack[3].name = "div" /\ "sitetable" \in stack[3].class

\* Event::Start(st), lines 47-53.
StartTag ==
    /\ pc = "direct_children"
    /\ ret = None
    /\ ~loc.panicked
    /\ loc.opened < MaxElems
    /\ Len(loc.stack) < MaxDepth
    /\ \E tag \in StartTags :
          LET bytes == [name |-> tag.name, class |-> tag.class,
                        id |-> IF tag.has_id THEN Some(loc.opened + 1)
                               ELSE None]
              r     == process_start(loc.sm, bytes)
              under == \E k \in 1..Len(loc.stack) :
                          \E y \in 1..Len(loc.yielded) :
                              loc.stack[k].id = Some(loc.yielded[y].id)
              dir   == IsDirectChild(loc.stack, bytes)
          IN  loc' = [loc EXCEPT
                        !.stack = Append(@, bytes),
                        !.opened = @ + 1,
                        !.sm = r.sm,
                        !.yielded = IF IsSome(r.id)
                                    THEN Append(@, [id |-> r.id.v,
                                                    direct |-> dir,
                                                    under |-> under])
                                    ELSE @,
                        !.direct = IF dir THEN Append(@, bytes.id.v) ELSE @]
    /\ UNCHANGED <<arg, ret>>
    /\ AloneUnchanged

\* Event::End(e), line 54.
EndTag ==
    /\ pc = "direct_children"
    /\ ret = None
    /\ ~loc.panicked
    /\ loc.stack # <<>>
    /\ LET r == process_end(loc.sm)
       IN  loc' = [loc EXCEPT
                     !.stack = SubSeq(@, 1, Len(@) - 1),
                     !.sm = r.sm,
                     !.panicked = r.panic]
    /\ UNCHANGED <<arg, ret>>
    /\ AloneUnchanged

\* Event::Eof, line 46: the loop breaks and the generator is exhausted.
Eof ==
    /\ pc = "direct_children"
    /\ ~loc.panicked
    /\ ret = None
    /\ loc.stack = <<>>
    /\ ret' = Some([k \in 1..Len(loc.yielded) |-> loc.yielded[k].id])
    /\ UNCHANGED <<arg, loc>>
    /\ AloneUnchanged

NextChildren ==
    \/ StartTag
    \/ EndTag
    \/ Eof

SpecChildren == InitChildren /\ [][NextChildren]_vars

(***************************************************************************)
(* fix_broken, on the characters of the input. The inputs are put together *)
(* from up to MaxPieces pieces ("<img", "<input", ">", "/", "x"); the      *)
(* function works on the characters, with positions counted from 0 as in   *)
(* the source.                                                             *)
(***************************************************************************)
Pieces ==
    {<<"<", "i", "m", "g">>, <<"<", "i", "n", "p", "u", "t">>, <<">">>,
     <<"/">>, <<"x">>}

RECURSIVE Flatten(_)
Flatten(ps) == IF ps = <<>> THEN <<>> ELSE Head(ps) \o Flatten(Tail(ps))

Inputs ==
    {Flatten(ps) : ps \in UNION {[1..n -> Pieces] : n \in 0..MaxPieces}}

\* ibytes[from .. from + n), positions from 0.
Bytes(ibytes, from, n) == SubSeq(ibytes, from + 1, from + n)

\* The test of line 179 on the window of 6 bytes at index1.
IsTagStart(ibytes, index1) ==
    \/ Bytes(ibytes, index1, 4) = <<"<", "i", "m", "g">>
    \/ Bytes(ibytes, index1, 6) = <<"<", "i", "n", "p", "u", "t">>

\* Lines 180-189: the first window c of 2 bytes in ibytes[index1 + 4 ..]
\* with c[0] = '>' (c then differs from "/>"), as index1 + index2 + 5.
find_close(ibytes, index1) ==
    LET found == {index2 \in 0..(Len(ibytes) - (index1 + 4) - 2) :
                     ibytes[index1 + 4 + index2 + 1] = ">"}
    IN  IF found = {} THEN None
        ELSE Some(index1 + (CHOOSE i \in found : \A j \in found : i <= j) + 5)

\* Lines 175-194: the inserts of the windows from index1 on, in order.
RECURSIVE Inserts(_, _)
Inserts(ibytes, index1) ==
    IF index1 + 6 > Len(ibytes) THEN <<>>
    ELSE IF IsTagStart(ibytes, index1) /\ IsSome(find_close(ibytes, index1))
    THEN <<find_close(ibytes, index1).v>> \o Inserts(ibytes, index1 + 1)
    ELSE Inserts(ibytes, index1 + 1)

\* String::insert(idx, ch).
StringInsert(input, idx, ch) ==
    SubSeq(input, 1, idx) \o <<ch>> \o SubSeq(input, idx + 1, Len(input))

\* Lines 195-200: input.insert(insert + offset - 1, '/') for each insert.
RECURSIVE ApplyInserts(_, _, _)
ApplyInserts(input, inserts, offset) ==
    IF inserts = <<>> THEN input
    ELSE ApplyInserts(StringInsert(input, Head(inserts) + offset - 1, "/"),
                      Tail(inserts), offset + 1)

fix_broken(input) == ApplyInserts(input, Inserts(input, 0), 0)

InitFix ==
    /\ Alone("fix_broken")
    /\ arg \in Inputs
    /\ loc = [once |-> None, twice |-> None]
    /\ ret = None

\* fix_broken(&mut html).
FixOnce ==
    /\ pc = "fix_broken"
    /\ loc.once = None
    /\ loc' = [loc EXCEPT !.once = Some(fix_broken(arg))]
    /\ UNCHANGED <<arg, ret>>
    /\ AloneUnchanged

\* fix_broken on its own output.
FixAgain ==
    /\ pc = "fix_broken"
    /\ IsSome(loc.once)
    /\ loc.twice = None
    /\ loc' = [loc EXCEPT !.twice = Some(fix_broken(loc.once.v))]
    /\ UNCHANGED <<arg, ret>>
    /\ AloneUnchanged

NextFix ==
    \/ FixOnce
    \/ FixAgain

SpecFix == InitFix /\ [][NextFix]_vars

(***************************************************************************)
(* Helpers of the properties.                                              *)
(***************************************************************************)
\* The places (from 1) where an <img or <input tag of s starts.
TagStarts(s) ==
    {p \in 1..Len(s) :
        \/ p + 3 <= Len(s) /\ SubSeq(s, p, p + 3) = <<"<", "i", "m", "g">>
        \/ /\ p + 5 <= Len(s)
           /\ SubSeq(s, p, p + 5) = <<"<", "i", "n", "p", "u", "t">>}

\* The closing '>' of the tag that starts at p: the first '>' after the
\* tag's name, 0 if there is none.
ClosingOf(s, p) ==
    LET after == {k \in (p + 4)..Len(s) : s[k] = ">"}
    IN  IF after = {} THEN 0 ELSE CHOOSE k \in after : \A j \in after : k <= j

\* The closing '>' of the tags of s that do not end in "/>".
Unclosed(s) ==
    {k \in 1..Len(s) :
        /\ \E p \in TagStarts(s) : ClosingOf(s, p) = k
        /\ s[k - 1] # "/"}

\* s with one '/' put directly before each of the places ks.
RECURSIVE WithSlashes(_, _, _)
WithSlashes(s, ks, k) ==
    IF k > Len(s) THEN <<>>
    ELSE (IF k \in ks THEN <<"/", s[k]>> ELSE <<s[k]>>)
         \o WithSlashes(s, ks, k + 1)

\* The whole number of hundredths nearest to the f32 x (0 <= x < 2^23).
NearestCs(x) ==
    IF x.nan \/ x.m = 0 THEN 0
    ELSE LET p == 2^(-x.e)
             q == (100 * x.m) \div p
             r == (100 * x.m) % p
         IN  IF 2 * r >= p THEN q + 1 ELSE q

RECURSIVE SumLen(_)
\* The summed lengths (end - start) of a sequence of playlist entries.
SumLen(es) ==
    IF es = <<>> THEN 0
    ELSE (es[1].end - es[1].start) + SumLen(Tail(es))

\* The lengths of a sequence of playlist entries.
Lens(es) == [k \in 1..Len(es) |-> es[k].end - es[k].start]

\* A ConvertedFrame with neither a foreground image nor an overlay image.
Blank(cf) == ~IsSome(cf.fg_image) /\ ~IsSome(cf.text_overlay)

\* The task of frame i has ended and the frame cannot be compiled: its
\* resolution returned an error, or it has no image.
FrameFailed(i) ==
    /\ IsSome(frames_tasks[i])
    /\ \/ ~frames_tasks[i].v.ok
       \/ Blank(frames_tasks[i].v.v)

\* The element of the event log with the given id.
Element(id) ==
    mlt_events[CHOOSE k \in 1..Len(mlt_events) : mlt_events[k].id = id]

\* A Frame with narration text, no overlay text and no source image.
NarrationOnly(f) ==
    f.tts # "" /\ f.overlaid = "" /\ ~IsSome(f.imagepath)

RECURSIVE SumDurs(_)
\* The summed tick-durations of a sequence of <<tractor, dur>>.
SumDurs(ts) ==
    IF ts = <<>> THEN 0 ELSE ts[1][2] + SumDurs(Tail(ts))

\* The resource of the producer that the one entry of a playlist plays.
TrackResource(playlist) ==
    Element(Element(playlist).entries[1].id).resource

\* The files a ConvertedFrame brings: its images, then its narration.
FrameResources(cf) ==
    (IF IsSome(cf.fg_image) THEN <<cf.fg_image.v[1]>> ELSE <<>>)
    \o (IF IsSome(cf.text_overlay) THEN <<cf.text_overlay.v[1]>> ELSE <<>>)
    \o (IF IsSome(cf.tts_audio) THEN <<cf.tts_audio.v[1]>> ELSE <<>>)

\* A Frame with no narration, the overlay text "Title", no image, 1.5 s.
TitleCard ==
    [tts |-> "", overlaid |-> "Title", imagepath |-> None,
     imagefadesin |-> FALSE, persists_after_tts |-> 150]

\* t is the f32 x with its fraction dropped.
IsFloorOf(t, x) ==
    IF x.nan \/ x.m = 0 \/ x.e < -24 THEN t = 0
    ELSE IF x.e >= 0 THEN t = x.m * 2^x.e
    ELSE t * 2^(-x.e) <= x.m /\ x.m < (t + 1) * 2^(-x.e)

\* The place in the event log of the element with the given id.
Position(id) == CHOOSE k \in 1..Len(mlt_events) : mlt_events[k].id = id

\* The Track Unit of a frame tractor: the tractor, the playlists that are
\* its tracks, and the producers those playlists play.
UnitIds(tractor) ==
    LET tracks == Element(tractor).tracks
    IN  {tractor}
        \cup {tracks[t] : t \in 1..Len(tracks)}
        \cup UNION {{Element(tracks[t]).entries[e].id :
                        e \in 1..Len(Element(tracks[t]).entries)} :
                    t \in 1..Len(tracks)}

\* The events from just after the previous frame's tractor (or after the
\* "black" producer, the first event) up to the k-th frame's tractor.
Block(k) ==
    ((IF k = 1 THEN 1 ELSE Position(frame_tractors[k - 1][1])) + 1)
        .. Position(frame_tractors[k][1])

\* The string s in lower case.
Lowered(s) == [k \in 1..Len(s) |-> Fold(s[k])]

\* w is a substring of t.
Contains(t, w) ==
    \E i \in 0..(Len(t) - Len(w)) : SubSeq(t, i + 1, i + Len(w)) = w

RECURSIVE Content(_, _, _)
\* What the frame tasks ts, taken in order from the i-th with d ticks
\* compiled so far, make of the content: all compiled ("all" and the total
\* ticks), stopped at an error or at a blank frame, or waiting on a task.
Content(ts, i, d) ==
    IF i > Len(ts) THEN [kind |-> "all", dur |-> d]
    ELSE IF ~IsSome(ts[i]) THEN [kind |-> "pending", dur |-> d]
    ELSE IF ~ts[i].v.ok THEN [kind |-> "err", dur |-> d, e |-> ts[i].v.e]
    ELSE IF Blank(ts[i].v.v) THEN [kind |-> "panic", dur |-> d]
    ELSE Content(ts, i + 1, d + seconds_to_frames(ts[i].v.v.duration))

\* What process ends with, as a function of the results of the frame tasks,
\* the result of the music task and what melt did, and of nothing else.
ExpectedResult ==
    LET c == Content(frames_tasks, 1, 0)
    IN  CASE c.kind = "err" -> Some(Err(c.e))
          [] c.kind = "panic" -> Some(Panic)
          [] c.kind = "pending" -> None
          [] c.kind = "all" /\ TooShort(c.dur) ->
                Some(Err("duration is less than a minute"))
          [] OTHER ->
                IF ~IsSome(musictask) THEN None
                ELSE IF ~musictask.v.ok THEN Some(Err(musictask.v.e))
                ELSE IF ~IsSome(melt_status) THEN Some(Err("Io"))
                ELSE IF melt_status.v # 0 THEN Some(Err("Melt failed"))
                ELSE Some(Ok("/koti/koti.webm"))

\* floor(r * 2^24): the f32 r as a fixed-point number.
Fixed24(r) ==
    IF r.nan \/ r.m = 0 THEN 0
    ELSE IF r.e + 24 >= 0 THEN r.m * 2^(r.e + 24)
    ELSE r.m \div 2^(-(r.e + 24))

(***************************************************************************)
(* C1. Under every completion order of the resolution tasks, the frames    *)
(* are compiled in the order of their emission, each only after its own    *)
(* resolution has ended, and the content playlist lists their tractors in  *)
(* that order, one entry per emitted frame.                                *)
(***************************************************************************)
C1_TimelineInEmissionOrder ==
    /\ compiled = [k \in 1..Len(compiled) |-> k]
    /\ Len(frame_tractors) = Len(compiled)
    /\ \A k \in 1..Len(compiled) :
          /\ IsSome(frames_tasks[compiled[k]])
          /\ frames_tasks[compiled[k]].v.ok
          /\ frame_tractors[k][2] =
                seconds_to_frames(frames_tasks[compiled[k]].v.v.duration)
    /\ frame_playlist # "" =>
          /\ Len(compiled) = Len(frames)
          /\ Element(frame_playlist).entries =
                [k \in 1..Len(frames) |->
                   Entry(frame_tractors[k][1], 0, frame_tractors[k][2])]

\* Frame 2 was resolved before frame 1 (it took the first wav file name),
\* and the content playlist has been built.
C1_LaterFrameResolvedFirst ==
    /\ Len(frames) = 2
    /\ frame_playlist # ""
    /\ compiled = <<1, 2>>
    /\ frames_tasks[1].v.v.tts_audio = Some(<<TtsPath(1), 4850>>)
    /\ frames_tasks[2].v.v.tts_audio = Some(<<TtsPath(0), 6000>>)
    /\ Len(Element(frame_playlist).entries) = 2

(***************************************************************************)
(* C2. Once all frames are compiled, a total duration below 60 seconds of  *)
(* ticks ends process with the duration error; melt has not been started   *)
(* and the context holds no video path, whatever the music task did.       *)
(***************************************************************************)
C2_TooShortFailsBeforeRender ==
    (frame_playlist # "" /\ duration < (60 * FPS) \div 100) =>
        /\ pc = "done"
        /\ result = Some(Err("duration is less than a minute"))
        /\ meltRuns = 0
        /\ video_path = None

\* A program of 50 seconds is refused although the music task has
\* delivered a track.
C2_FiftySecondsWithMusic ==
    /\ pc = "done"
    /\ duration = 1498
    /\ IsSome(musictask)
    /\ musictask.v.ok
    /\ result = Some(Err("duration is less than a minute"))
    /\ meltRuns = 0

(***************************************************************************)
(* C3. For a clip length of at least one tick, the lengths of the music    *)
(* playlist's entries never exceed the master duration and, once the scan  *)
(* has ended, sum to exactly the master duration.                          *)
(***************************************************************************)
C3_SegmentsSumToDuration ==
    musicdur >= 1 =>
        /\ SumLen(msegs) <= duration
        /\ pc = "scanned" => SumLen(msegs) = duration

\* A scan that ended with two full clips and a partial one.
C3_TwoClipsAndARest ==
    /\ pc = "scanned"
    /\ duration = 12
    /\ musicdur = 5
    /\ Len(msegs) = 3

(***************************************************************************)
(* C4. For a clip length m of at least one tick and a master duration D,   *)
(* the finished music playlist is D div m entries of length m, followed    *)
(* by one entry of length D mod m exactly if D mod m is not 0.             *)
(***************************************************************************)
C4_FullClipsThenRemainder ==
    (pc = "scanned" /\ musicdur >= 1) =>
        LET q == duration \div musicdur
            r == duration % musicdur
        IN  /\ Len(msegs) = q + (IF r = 0 THEN 0 ELSE 1)
            /\ \A k \in 1..Len(msegs) :
                  /\ msegs[k].start = 0
                  /\ msegs[k].end = IF k <= q THEN musicdur ELSE r

\* A clip of 40 looped against 95.
C4_FortyAgainstNinetyFive ==
    /\ pc = "scanned"
    /\ duration = 95
    /\ musicdur = 40
    /\ Lens(msegs) = <<40, 40, 15>>

(***************************************************************************)
(* C5, as claimed. When a frame cannot be resolved or compiled, process    *)
(* never goes past it, builds no content playlist, does not start melt,    *)
(* and ends by returning an error.                                         *)
(***************************************************************************)
C5_FailedFrameReturnsError ==
    \A i \in 1..Len(frames_tasks) :
        FrameFailed(i) =>
            /\ next <= i
            /\ frame_playlist = ""
            /\ meltRuns = 0
            /\ video_path = None
            /\ pc = "done" => (~result.v.ok /\ ~IsPanic(result.v))

(***************************************************************************)
(* C5, amended. When a frame cannot be resolved or compiled, process never *)
(* goes past it, builds no content playlist, does not start melt, and      *)
(* ends without success: it returns the error of the frame's resolution,   *)
(* or it panics when the frame it has reached has no image.                *)
(***************************************************************************)
C5_FailedFrameFailsRun ==
    \A i \in 1..Len(frames_tasks) :
        FrameFailed(i) =>
            /\ next <= i
            /\ frame_playlist = ""
            /\ meltRuns = 0
            /\ video_path = None
            /\ pc = "done" =>
                  /\ ~result.v.ok
                  /\ FrameFailed(next)
                  /\ IF frames_tasks[next].v.ok
                     THEN IsPanic(result.v)
                     ELSE result.v = Err(frames_tasks[next].v.e)

\* The first frame was compiled, the second has no image: process panicked.
C5_SecondFrameBlank ==
    /\ pc = "done"
    /\ compiled = <<1>>
    /\ Len(frames_tasks) = 2
    /\ FrameFailed(2)
    /\ IsPanic(result.v)

(***************************************************************************)
(* C6. from_frame has returned only if each of its three sub-tasks has     *)
(* ended, and if one of them ended with an error from_frame returned an    *)
(* error, not a ConvertedFrame.                                            *)
(***************************************************************************)
C6_ReturnsAfterAllSubtasks ==
    IsSome(fr_result) =>
        /\ IsSome(fr_tts) /\ IsSome(fr_overlay) /\ IsSome(fr_image)
        /\ (~fr_tts.v.ok \/ ~fr_overlay.v.ok \/ ~fr_image.v.ok)
              => ~fr_result.v.ok

\* All three sub-tasks were launched, the narration failed, the other two
\* delivered, and from_frame returned the narration's error.
C6_FailedNarrationAwaitedSiblings ==
    /\ Launched(fr_frame.v) = [tts |-> TRUE, overlay |-> TRUE, image |-> TRUE]
    /\ IsSome(fr_tts) /\ ~fr_tts.v.ok
    /\ IsSome(fr_overlay) /\ fr_overlay.v.ok
    /\ IsSome(fr_image) /\ fr_image.v.ok
    /\ fr_result = Some(Err("EspeakError"))

(***************************************************************************)
(* C7. The duration of a returned ConvertedFrame is the narration's        *)
(* duration (0 without narration text) plus persists_after_tts, and so at  *)
(* least persists_after_tts.                                               *)
(***************************************************************************)
C7_DurationIsNarrationPlusPersists ==
    (IsSome(fr_result) /\ fr_result.v.ok) =>
        LET f == fr_frame.v
            narration == IF f.tts # "" THEN fr_tts.v.v.v[2] ELSE 0
        IN  /\ fr_result.v.v.duration = narration + f.persists_after_tts
            /\ fr_result.v.v.duration >= f.persists_after_tts

\* A narration of 60 s on a frame that persists for 0.5 s.
C7_NarratedFrame ==
    /\ IsSome(fr_result)
    /\ fr_result.v.ok
    /\ fr_frame.v.tts # ""
    /\ fr_frame.v.persists_after_tts = 50
    /\ fr_result.v.v.duration = 6050

(***************************************************************************)
(* C8. While the frame process has reached is resolved and has no image,   *)
(* no step registers a producer, playlist or tractor or yields a track     *)
(* unit for it, and process leaves the compile loop only by the panic      *)
(* "blank frame?".                                                         *)
(***************************************************************************)
BlankAtNext ==
    /\ pc = "compile"
    /\ next \in 1..Len(frames_tasks)
    /\ IsSome(frames_tasks[next])
    /\ frames_tasks[next].v.ok
    /\ Blank(frames_tasks[next].v.v)

C8_BlankFrameRejected ==
    [][BlankAtNext =>
         /\ next' = next
         /\ frame_tractors' = frame_tractors
         /\ UNCHANGED mltVars
         /\ pc' # pc => (pc' = "done" /\ result' = Some(Panic))]_vars

\* The very first frame had no image: only the black producer is there.
C8_FirstFrameBlank ==
    /\ pc = "done"
    /\ result = Some(Panic)
    /\ compiled = <<>>
    /\ issued = <<ProducerId(0)>>

(***************************************************************************)
(* C9, as claimed. from_frame returns no ConvertedFrame for a Frame with   *)
(* narration text but no overlay text and no source image.                 *)
(***************************************************************************)
C9_NarrationOnlyNotResolved ==
    (NarrationOnly(fr_frame.v) /\ IsSome(fr_result)) => ~fr_result.v.ok

(***************************************************************************)
(* C9, amended. For a Frame with narration text but no overlay text and    *)
(* no source image, from_frame returns a ConvertedFrame exactly if the     *)
(* narration was synthesized; that ConvertedFrame has no image, and        *)
(* compiling it makes into_tractor panic.                                  *)
(***************************************************************************)
C9_NarrationOnlyFailsAtCompile ==
    (NarrationOnly(fr_frame.v) /\ IsSome(fr_result)) =>
        /\ fr_result.v.ok <=> fr_tts.v.ok
        /\ fr_result.v.ok =>
              /\ Blank(fr_result.v.v)
              /\ into_tractor(Comp, fr_result.v.v).kind = "panic"

\* A narration-only frame that from_frame resolved.
C9_NarrationOnlyResolved ==
    /\ NarrationOnly(fr_frame.v)
    /\ IsSome(fr_result)
    /\ fr_result.v.ok
    /\ IsSome(fr_result.v.v.tts_audio)

(***************************************************************************)
(* C10. The identifiers returned by add_producer, add_playlist and         *)
(* add_tractor are pairwise different, and the three counters together     *)
(* have counted every call: none was reset or handed out twice.            *)
(***************************************************************************)
C10_IdentifiersUnique ==
    /\ \A i, j \in 1..Len(issued) : i # j => issued[i] # issued[j]
    /\ ID.producer + ID.playlist + ID.tractor = Len(issued)
    /\ \A k \in 1..Len(mlt_events) :
          \E i \in 1..Len(issued) : issued[i] = mlt_events[k].id

\* Five calls of all three kinds, with a new Mlt started in between.
C10_CallsAcrossTwoMlts ==
    /\ Len(issued) = 5
    /\ ID = [producer |-> 2, playlist |-> 2, tractor |-> 1]
    /\ Len(mlt_events) = 2

(***************************************************************************)
(* C13, as claimed. The conversion of N * D lies between N times the       *)
(* conversion of D and that plus N - 1.                                    *)
(***************************************************************************)
C13_SumWithinTruncation ==
    (pc = "ticks" /\ IsSome(ret.each) /\ IsSome(ret.total)) =>
        /\ arg.n * ret.each.v <= ret.total.v
        /\ ret.total.v <= arg.n * ret.each.v + (arg.n - 1)

(***************************************************************************)
(* C13, amended. seconds_to_frames drops the fraction of the f32 product   *)
(* s * FPS (for a duration of whole hundredths of a second that is the     *)
(* integer part of the decimal product), and the conversion of N * D lies  *)
(* between N times the conversion of D minus 1 and that plus N: the        *)
(* rounding of the f32 products moves either bound by one tick.            *)
(***************************************************************************)
C13_SumWithinRounding ==
    pc = "ticks" =>
        /\ IsSome(ret.each) =>
              /\ IsFloorOf(ret.each.v, f32_mul(f32_of_cs(arg.cs), FPS_f32))
              /\ ret.each.v = (arg.cs * FPS) \div 10000
        /\ (IsSome(ret.each) /\ IsSome(ret.total)) =>
              /\ arg.n * ret.each.v - 1 <= ret.total.v
              /\ ret.total.v <= arg.n * ret.each.v + arg.n

\* 136.67 s is 4095 ticks, and three times 136.67 s is 12288 ticks.
C13_ThreeLongNarrations ==
    /\ pc = "ticks"
    /\ arg = [cs |-> 13667, n |-> 3]
    /\ ret = [each |-> Some(4095), total |-> Some(12288)]

(***************************************************************************)
(* C18. The two vertical shares sum to 1 within the tolerance of f32       *)
(* (2^-23), the heights allocated to the two images are not negative and   *)
(* together fill the video's height up to the two truncations, and both    *)
(* images lie inside the video's height.                                   *)
(***************************************************************************)
C18_SharesSumToOne ==
    (pc = "layout" /\ IsSome(ret)) =>
        LET g == ret.v
            s == Fixed24(g.r1) + Fixed24(g.r2)
        IN  /\ ~g.r1.nan /\ ~g.r2.nan
            /\ 2^24 - 2 <= s /\ s <= 2^24 + 2
            /\ g.ch1 >= 0 /\ g.ch2 >= 0
            /\ g.ch1 + g.ch2 <= VIDEO_HEIGHT
            /\ g.ch1 + g.ch2 >= VIDEO_HEIGHT - 2
            /\ g.y1 >= 0 /\ g.y2 = g.y1 + g.ch2 /\ g.y2 <= VIDEO_HEIGHT

\* A screenshot 480 pixels high above an overlay 200 pixels high.
C18_ScreenshotAndOverlay ==
    /\ pc = "layout"
    /\ arg = [h1 |-> 480, h2 |-> 200]
    /\ IsSome(ret)
    /\ ret.v.ch1 = 762
    /\ ret.v.ch2 = 317

(***************************************************************************)
(* C19. In the two-image layout the width given to image 1 is              *)
(* trunc(video_width * r1) and the width given to image 2 is               *)
(* trunc(video_width * r2).                                                *)
(***************************************************************************)
C19_WidthsProportional ==
    (pc = "layout" /\ IsSome(ret)) =>
        /\ ret.v.cw1 = Share(VIDEO_WIDTH, Ratio(arg.h1, arg.h1 + arg.h2))
        /\ ret.v.cw2 = Share(VIDEO_WIDTH, Ratio(arg.h2, arg.h1 + arg.h2))

(***************************************************************************)
(* C12. No step of process lowers the master duration; after every step    *)
(* it is the sum of the tick-durations into_tractor has returned so far,   *)
(* and a step that appends a frame adds exactly that frame's ticks.        *)
(***************************************************************************)
C12_DurationAccumulates ==
    [][/\ duration' >= duration
       /\ duration' = SumDurs(frame_tractors')
       /\ Len(frame_tractors') = Len(compiled')
       /\ frame_tractors' # frame_tractors =>
             /\ Len(frame_tractors') = Len(frame_tractors) + 1
             /\ duration' =
                   duration + frame_tractors'[Len(frame_tractors')][2]]_vars

\* Two frames of different lengths have been compiled.
C12_TwoFramesSummed ==
    /\ Len(frame_tractors) = 2
    /\ frame_tractors[1][2] = 1498
    /\ frame_tractors[2][2] = 44
    /\ duration = 1542

(***************************************************************************)
(* C14. Once melt has exited with a status other than 0, process has       *)
(* ended with the error "Melt failed" and the context holds no video path. *)
(***************************************************************************)
C14_MeltFailureIsFatal ==
    (IsSome(melt_status) /\ melt_status.v # 0) =>
        /\ pc = "done"
        /\ result = Some(Err("Melt failed"))
        /\ video_path = None

\* melt ran on a saved project and exited with status 1.
C14_MeltExitedWithOne ==
    /\ melt_status = Some(1)
    /\ meltRuns = 1
    /\ IsSome(project)
    /\ pc = "done"

(***************************************************************************)
(* C15. In the saved project the consumer's range is in = 0,               *)
(* out = the master duration; the document's producer is the main tractor, *)
(* whose tracks are the music and the content playlist and whose one       *)
(* transition is a mix from 0 to the master duration; and the master       *)
(* duration is the sum of the lengths of the content playlist's entries.   *)
(***************************************************************************)
C15_ConsumerAndMixSpanDuration ==
    IsSome(project) =>
        LET main == Element(project.v.mlt.producer)
        IN  /\ project.v.events = mlt_events
            /\ project.v.consumer.in = "0"
            /\ project.v.consumer.out = ToString(duration)
            /\ main.el = "tractor"
            /\ Len(main.tracks) = 2
            /\ main.tracks[2] = frame_playlist
            /\ main.transitions = <<Transition("mix", "0", "1", 0, duration)>>
            /\ duration = SumLen(Element(frame_playlist).entries)

\* A project of two frames, 1498 and 1843 ticks long.
C15_ProjectOfTwoFrames ==
    /\ IsSome(project)
    /\ Len(frame_tractors) = 2
    /\ duration = 3341
    /\ project.v.consumer.out = "3341"

(***************************************************************************)
(* C16. The tractor compiled for a frame has one track per image of the    *)
(* ConvertedFrame (foreground first, overlay second) and, exactly if the   *)
(* frame has narration audio, one more track for it: each track is a       *)
(* playlist whose one entry plays the producer of that file for the        *)
(* frame's ticks.                                                          *)
(***************************************************************************)
C16_OneTrackPerImagePlusAudio ==
    \A k \in 1..Len(frame_tractors) :
        LET cf == frames_tasks[k].v.v
            t  == Element(frame_tractors[k][1])
            rs == FrameResources(cf)
        IN  /\ t.el = "tractor"
            /\ Len(t.tracks) = Len(rs)
            /\ \A n \in 1..Len(rs) :
                  /\ Element(t.tracks[n]).el = "playlist"
                  /\ Len(Element(t.tracks[n]).entries) = 1
                  /\ Element(t.tracks[n]).entries[1].start = 0
                  /\ Element(t.tracks[n]).entries[1].end = frame_tractors[k][2]
                  /\ TrackResource(t.tracks[n]) = rs[n]

\* An overlay-only frame and an image-only frame, both without narration,
\* were compiled into tractors of one track each.
C16_OverlayOnlyAndImageOnly ==
    /\ Len(frame_tractors) = 2
    /\ frames[1].tts = "" /\ frames[1].overlaid # ""
    /\ ~IsSome(frames[1].imagepath)
    /\ frames[2].tts = "" /\ frames[2].overlaid = ""
    /\ IsSome(frames[2].imagepath)
    /\ Len(Element(frame_tractors[1][1]).tracks) = 1
    /\ Len(Element(frame_tractors[2][1]).tracks) = 1

(***************************************************************************)
(* C17, as claimed. A frame with no narration, the overlay text "Title",   *)
(* no image and 1.5 s is compiled into a tractor of round(1.5 * FPS) = 45  *)
(* ticks.                                                                  *)
(***************************************************************************)
C17_TitleCardRounded ==
    \A k \in 1..Len(frame_tractors) :
        frames[k] = TitleCard =>
            frame_tractors[k][2] = (150 * FPS + 5000) \div 10000

(***************************************************************************)
(* C17, amended. A frame with no narration, the overlay text "Title", no   *)
(* image and 1.5 s is compiled into one tractor of trunc(1.5 * FPS) = 44   *)
(* ticks, with the overlay as its only track.                              *)
(***************************************************************************)
C17_TitleCardTruncated ==
    \A k \in 1..Len(frame_tractors) :
        frames[k] = TitleCard =>
            /\ frame_tractors[k][2] = (150 * FPS) \div 10000
            /\ frame_tractors[k][2] = 44
            /\ Len(Element(frame_tractors[k][1]).tracks) = 1

\* The title card was the first frame and has been compiled.
C17_TitleCardCompiled ==
    /\ Len(frame_tractors) >= 1
    /\ frames[1] = TitleCard
    /\ frame_tractors[1][2] = 44

(***************************************************************************)
(* C11. Under every interleaving of the tasks, no two tasks hold the same  *)
(* value of TTS_COUNTER or the same value of TEXT_OVERLAY_COUNT, each      *)
(* counter has counted exactly the tasks that took a value from it, and    *)
(* no output path is written twice.                                        *)
(***************************************************************************)
C11_CounterValuesUnique ==
    pc = "tasks" =>
        /\ \A i, j \in 1..Len(tasks) :
              i # j =>
                 /\ (IsSome(tasks[i].tts_n) /\ IsSome(tasks[j].tts_n))
                       => TtsPath(tasks[i].tts_n.v) # TtsPath(tasks[j].tts_n.v)
                 /\ (IsSome(tasks[i].ov_n) /\ IsSome(tasks[j].ov_n))
                       => OverlayPath(tasks[i].ov_n.v)
                             # OverlayPath(tasks[j].ov_n.v)
        /\ \A a, b \in files : a # b => a[2] # b[2]
        /\ TTS_COUNTER =
              Cardinality({i \in 1..Len(tasks) :
                             tasks[i].tts \in {"named", "done", "failed"}})
        /\ TEXT_OVERLAY_COUNT =
              Cardinality({i \in 1..Len(tasks) : IsSome(tasks[i].ov_n)})

\* Two tasks with narration and overlay: the task of the second frame
\* took the first wav name, the task of the first frame the first png
\* name, and all four files were written.
C11_TwoTasksOutOfOrder ==
    /\ pc = "tasks"
    /\ Len(tasks) = 2
    /\ tasks[1].tts_n = Some(1) /\ tasks[2].tts_n = Some(0)
    /\ tasks[1].ov_n = Some(0) /\ tasks[2].ov_n = Some(1)
    /\ Cardinality(files) = 4

(***************************************************************************)
(* C20. Once the content playlist is built, if an intro is configured its  *)
(* first entry is a tractor that plays the intro, and if an outro is       *)
(* configured its last entry is a tractor that plays the outro.            *)
(***************************************************************************)
C20_IntroFirstOutroLast ==
    frame_playlist # "" =>
        LET es == Element(frame_playlist).entries
        IN  /\ IsSome(intro) =>
                  /\ Len(es) >= 1
                  /\ TrackResource(Element(es[1].id).tracks[1]) = intro.v
            /\ IsSome(outro) =>
                  /\ Len(es) >= 1
                  /\ TrackResource(Element(es[Len(es)].id).tracks[1]) = outro.v

(***************************************************************************)
(* C21. What process ends with, the content timeline and the music         *)
(* segments are a function of the frame tasks' results, the music task's   *)
(* result and melt alone, whenever the music task ended; and the music     *)
(* task's result is used only once every frame is compiled and the total   *)
(* duration has passed the minimum.                                        *)
(***************************************************************************)
C21_MusicTimingIrrelevant ==
    /\ pc \in {"collect", "compile"} =>
          music_producer = "" /\ musicdur = 0 /\ msegs = <<>>
    /\ music_producer # "" =>
          /\ Content(frames_tasks, 1, 0) = [kind |-> "all", dur |-> duration]
          /\ ~TooShort(duration)
          /\ musictask.v.ok
          /\ musicdur = seconds_to_frames(musictask.v.v[3])
          /\ Element(music_producer).resource = musictask.v.v[1]
    /\ pc = "done" =>
          /\ result = ExpectedResult
          /\ duration = Content(frames_tasks, 1, 0).dur
          /\ IsSome(melt_status) => SumLen(msegs) = duration

\* process succeeded although the music task had ended before the frame
\* source did.
C21_MusicEndedFirst ==
    /\ pc = "done"
    /\ result = Some(Ok("/koti/koti.webm"))
    /\ music_at = "collect"
    /\ Len(compiled) = 2

(***************************************************************************)
(* C22. The event log only grows at its end: no step changes or reorders   *)
(* an event emitted earlier; a step in which a resolver task or the music  *)
(* task ends adds nothing to it; and the events of each compiled frame's   *)
(* Track Unit are one contiguous block of the log, the blocks in the       *)
(* order of the frames.                                                    *)
(***************************************************************************)
C22_EventLogAppendOnly ==
    /\ [][/\ Len(mlt_events') >= Len(mlt_events)
          /\ SubSeq(mlt_events', 1, Len(mlt_events)) = mlt_events
          /\ (frames_tasks' # frames_tasks \/ musictask' # musictask) =>
                mlt_events' = mlt_events]_vars
    /\ [](\A k \in 1..Len(frame_tractors) :
            /\ Block(k) # {}
            /\ {mlt_events[j].id : j \in Block(k)}
                  = UnitIds(frame_tractors[k][1]))

\* Two frames are compiled, the first from two images and a narration (a
\* unit of seven events), and the content playlist follows their blocks.
C22_TwoUnitsThenPlaylist ==
    /\ Len(frame_tractors) = 2
    /\ frame_playlist # ""
    /\ Cardinality(UnitIds(frame_tractors[1][1])) = 7
    /\ Position(frame_tractors[1][1]) = 8
    /\ Position(frame_playlist) = Position(frame_tractors[2][1]) + 1

(***************************************************************************)
(* C23. Whenever wrapping a word has moved the pen below max_image_height, *)
(* text_overlay returns the overflow error and no image.                   *)
(***************************************************************************)
C23_OverflowIsSignalled ==
    (pc = "glyphs" /\ IsSome(ret) /\ loc.y > arg.max_image_height) =>
        ret = Some(Err("GlyphOverflow"))

(***************************************************************************)
(* C24. apply renders first at size 80 and then each time at a size 1      *)
(* smaller; a render follows another only if that one ended with the       *)
(* overflow error; there are at most 80 renders, and after the 80th        *)
(* overflow (size below 1) the overflow error is what the task returns;    *)
(* any other error, or the image, is returned at the render it came from.  *)
(***************************************************************************)
C24_ShrinkOnOverflowOnly ==
    pc = "apply" =>
        LET n == Len(loc.rendered)
        IN  /\ n <= StartSize
            /\ \A k \in 1..n :
                  /\ loc.rendered[k][1] = StartSize + 1 - k
                  /\ k < n => loc.rendered[k][2] = "GlyphOverflow"
            /\ loc.timage = None =>
                  /\ loc.current_size = StartSize - n
                  /\ loc.current_size >= 1
                  /\ n > 0 => loc.rendered[n][2] = "GlyphOverflow"
            /\ IsSome(loc.timage) =>
                  /\ n >= 1
                  /\ loc.rendered[n][2] = "ok" => loc.timage.v.ok
                  /\ loc.rendered[n][2] = "Io" => loc.timage.v = Err("Io")
                  /\ loc.rendered[n][2] = "GlyphOverflow" =>
                        /\ n = StartSize
                        /\ loc.timage.v = Err("GlyphOverflow")

\* The text did not fit at any size from 80 down to 1: apply has given up
\* and returned the overflow error.
C24_GaveUpAfterEightyRenders ==
    /\ pc = "apply"
    /\ Len(loc.rendered) = 80
    /\ loc.rendered[80] = <<1, "GlyphOverflow">>
    /\ ret = Some(Err("GlyphOverflow"))

C26_SetOnceTakeOnce ==
    [][LET r      == ret'.v
           before == loc.core
           after  == loc'.core
       IN  pc = "context" =>
             /\ r.op = "set" =>
                   /\ r.panic <=> IsSome(before[r.f])
                   /\ ~r.panic => after[r.f] = Some(r.v)
                   /\ \A g \in ContextFields \ {r.f} : after[g] = before[g]
             /\ r.op = "set_thumbnail" =>
                   /\ r.panic <=> (IsSome(before.thumbnail_text)
                                    \/ IsSome(before.thumbnail_template))
                   /\ ~r.panic => /\ after.thumbnail_text = Some(r.v)
                                  /\ after.thumbnail_template = Some(r.v)
                   /\ \A g \in ContextFields \
                                {"thumbnail_text", "thumbnail_template"} :
                         after[g] = before[g]
             /\ r.op \in {"take", "get"} =>
                   /\ r.panic <=> ~IsSome(before[r.f])
                   /\ ~r.panic => before[r.f] = Some(r.v)
                   /\ (r.op = "take" /\ ~r.panic) => after[r.f] = None
                   /\ \A g \in ContextFields \ {r.f} : after[g] = before[g]
      ]_vars

\* The video path was set to "b" and a take has returned "b", leaving the
\* field empty.
C26_TakeReturnedWhatWasSet ==
    /\ pc = "context"
    /\ ret = Called("take", "video_path", "b", FALSE)
    /\ loc.core.video_path = None

C28_RejectsExactlyDisallowed ==
    (pc = "filter" /\ IsSome(ret)) =>
        IF \E w \in FilterWords : Contains(Lowered(arg), w)
        THEN /\ ret.v.text = Err("DisallowedWord")
             /\ ret.v.pass = Err("DisallowedWord")
        ELSE /\ ret.v.text = Ok("()")
             /\ ret.v.pass = Ok(arg)

\* "poRn" is rejected.
C28_MixedCaseRejected ==
    /\ pc = "filter"
    /\ arg = <<"p", "o", "R", "n">>
    /\ ret = Some([text |-> Err("DisallowedWord"),
                   pass |-> Err("DisallowedWord")])

(***************************************************************************)
(* C29. Once set_thumbnail has been called, the thumbnail task does not    *)
(* stay in wait_for_thumbnail for ever: its wait returns in the end,       *)
(* whether it began to wait before or after the call.                      *)
(***************************************************************************)
C29_NoLostWakeUp ==
    (pc = "create_video" /\ loc.t1 = "titled") ~> (loc.t2 # "waiting")

(***************************************************************************)
(* C30. Once the video task has failed, create_video returns in the end,   *)
(* and returns that task's error.                                          *)
(***************************************************************************)
C30_FailureIsReturned ==
    (pc = "create_video" /\ loc.t1 = "failed") ~> (ret = Some(Err("t1")))

(***************************************************************************)
(* C31. The scan that builds the music playlist terminates for every       *)
(* master duration and every clip length, a clip of 0 ticks included. The  *)
(* scan is a deterministic loop over the remaining duration, so it         *)
(* terminates exactly if every turn that yields an entry leaves a smaller  *)
(* remaining duration; a turn that leaves it as it was is repeated for     *)
(* ever.                                                                   *)
(***************************************************************************)
C31_EveryTurnLowersTheRest ==
    [][(pc = "scan" /\ pc' = "scan") => mrem' < mrem]_vars

(***************************************************************************)
(* C32. In the Track Unit of every compiled frame, each track (every image *)
(* track and the audio track, if there is one) is a playlist whose entries *)
(* all run from 0 to the ticks into_tractor returned for the frame, which  *)
(* is seconds_to_frames of the ConvertedFrame's duration; and the entry    *)
(* the content playlist gives the frame runs from 0 to the same number.    *)
(***************************************************************************)
C32_TracksAsLongAsTheSlot ==
    \A k \in 1..Len(frame_tractors) :
        LET dur    == frame_tractors[k][2]
            tracks == Element(frame_tractors[k][1]).tracks
        IN  /\ dur = seconds_to_frames(frames_tasks[k].v.v.duration)
            /\ \A n \in 1..Len(tracks) :
                  \A e \in 1..Len(Element(tracks[n]).entries) :
                      /\ Element(tracks[n]).entries[e].start = 0
                      /\ Element(tracks[n]).entries[e].end = dur
            /\ frame_playlist # "" =>
                  /\ Element(frame_playlist).entries[k].id
                        = frame_tractors[k][1]
                  /\ Element(frame_playlist).entries[k].start = 0
                  /\ Element(frame_playlist).entries[k].end = dur

\* A frame with an image, an overlay and narration was compiled into three
\* tracks, and the content playlist has been built.
C32_ThreeTracksInThePlaylist ==
    /\ frame_playlist # ""
    /\ \E k \in 1..Len(frame_tractors) :
          /\ Len(Element(frame_tractors[k][1]).tracks) = 3
          /\ IsSome(frames_tasks[k].v.v.tts_audio)

(***************************************************************************)
(* C33. In the two-image layout, for image heights of at least 1, the      *)
(* rows [y1, y1 + ch1) of image 1 and the rows [y2, y2 + ch2) of image 2   *)
(* have no row in common, and both lie within [0, VIDEO_HEIGHT].           *)
(***************************************************************************)
C33_ExtentsDisjointAndInside ==
    (pc = "layout" /\ IsSome(ret)) =>
        LET g == ret.v
        IN  /\ \/ g.ch1 = 0
               \/ g.ch2 = 0
               \/ g.y1 + g.ch1 <= g.y2
               \/ g.y2 + g.ch2 <= g.y1
            /\ 0 <= g.y1 /\ g.y1 + g.ch1 <= VIDEO_HEIGHT
            /\ 0 <= g.y2 /\ g.y2 + g.ch2 <= VIDEO_HEIGHT

(***************************************************************************)
(* C34. When sub-tasks of a frame's resolution have failed, from_frame     *)
(* returns the error of the first failed one in the order narration,       *)
(* overlay, image probe, whatever the order in which the sub-tasks ended;  *)
(* it returns a ConvertedFrame only if none failed.                        *)
(***************************************************************************)
C34_ErrorByFixedPriority ==
    (pc = "join" /\ IsSome(ret)) =>
        LET failed == {n \in 1..Len(Subtasks) : ~loc[Subtasks[n]].v.ok}
            first  == CHOOSE n \in failed : \A m \in failed : n <= m
        IN  IF failed = {} THEN ret.v.ok
            ELSE ret.v = Err(loc[Subtasks[first]].v.e)

\* The image probe failed first, then the overlay, the narration last,
\* and from_frame returned the narration's error.
C34_LastToFailWins ==
    /\ pc = "join"
    /\ loc.order = <<"image", "overlay", "tts">>
    /\ ~loc.tts.v.ok /\ ~loc.overlay.v.ok /\ ~loc.image.v.ok
    /\ ret = Some(Err("EspeakError"))

(***************************************************************************)
(* C35. In the event log, and so in the saved project, every producer,     *)
(* playlist or tractor that a playlist entry or a track refers to is       *)
(* defined at an earlier place of the log than the element that refers to  *)
(* it; the producer attribute of the root element names the main tractor,  *)
(* which is the last element of the log.                                   *)
(***************************************************************************)
C35_DefinedBeforeReferenced ==
    LET Refs(e) ==
            IF e.el = "playlist"
            THEN {e.entries[i].id : i \in 1..Len(e.entries)}
            ELSE IF e.el = "tractor"
            THEN {e.tracks[i] : i \in 1..Len(e.tracks)}
            ELSE {}
        Ordered(ev) ==
            \A k \in 1..Len(ev) :
                \A id \in Refs(ev[k]) : \E j \in 1..(k - 1) : ev[j].id = id
    IN  /\ Ordered(mlt_events)
        /\ IsSome(project) =>
              LET ev == project.v.events
              IN  /\ Ordered(ev)
                  /\ ev[Len(ev)].el = "tractor"
                  /\ ev[Len(ev)].id = project.v.mlt.producer
                  /\ ev[Len(ev)].tracks[2] = frame_playlist
                  /\ \A j \in 1..(Len(ev) - 1) :
                        ev[j].id # project.v.mlt.producer

\* A project of two frames, one of them with two images, was saved: its
\* main tractor refers to the music playlist and the content playlist.
C35_SavedProjectOfTwoFrames ==
    /\ IsSome(project)
    /\ Len(frame_tractors) = 2
    /\ \E k \in 1..2 : Len(Element(frame_tractors[k][1]).tracks) >= 2
    /\ Len(project.v.events[Len(project.v.events)].tracks) = 2

(***************************************************************************)
(* C36. The duration the music task computes from "Duration: HH:MM:SS.cc"  *)
(* is HH * 3600 + MM * 60 + SS + cc / 100 seconds: taken to the nearest    *)
(* hundredth of a second, it is HH * 360000 + MM * 6000 + SS * 100 + cc    *)
(* hundredths.                                                             *)
(***************************************************************************)
C36_DurationInSeconds ==
    (pc = "probe" /\ IsSome(ret)) =>
        NearestCs(ret.v)
            = arg[1] * 360000 + arg[2] * 6000 + arg[3] * 100 + arg[4]

C39_NoPanicBackToInitial ==
    pc = "direct_children" =>
        /\ ~loc.panicked
        /\ \A k \in 1..Len(loc.sm) : loc.sm[k] \in Nat
        /\ loc.stack = <<>> => loc.sm = IgnoringTopLevel(0)

\* A document was read whose comment was reached through all four states,
\* and after its last end tag the machine is in its initial state.
C39_ThroughAllStatesAndBack ==
    /\ pc = "direct_children"
    /\ loc.opened >= 4
    /\ loc.direct # <<>>
    /\ loc.stack = <<>>
    /\ loc.sm = IgnoringTopLevel(0)

(***************************************************************************)
(* C38. fix_broken puts exactly one '/' directly before the closing '>' of *)
(* every <img or <input tag that does not end in "/>", and leaves every    *)
(* other character of the input as it is and where it is.                  *)
(***************************************************************************)
C38_UnclosedTagsClosed ==
    (pc = "fix_broken" /\ IsSome(loc.once)) =>
        loc.once.v = WithSlashes(arg, Unclosed(arg), 1)

(***************************************************************************)
(* C40. fix_broken leaves an input unchanged whose <img and <input tags    *)
(* all end in "/>", and applying it to its own output changes nothing:     *)
(* fix_broken(fix_broken(x)) = fix_broken(x).                              *)
(***************************************************************************)
C40_Idempotent ==
    pc = "fix_broken" =>
        /\ (IsSome(loc.once) /\ Unclosed(arg) = {}) => loc.once.v = arg
        /\ IsSome(loc.twice) => loc.twice.v = loc.once.v

=============================================================================
